---- MODULE Spec2Model ----
(***************************************************************************)
(* Lead-generation pipeline: normalisation (data_processor.py), persisted  *)
(* store de-duplication (google_sheets_manager.py), enrichment             *)
(* (email_finder.py, ai_compliment_generator.py) and campaign dispatch     *)
(* (heyreach_manager.py).                                                  *)
(*                                                                         *)
(* Python str values that the code inspects character by character are     *)
(* sequences of one-character strings; a dict is a record, a missing key   *)
(* is a field outside its DOMAIN.                                          *)
(***************************************************************************)
EXTENDS Integers, Sequences, FiniteSets, TLC

VARIABLES
    pc,            \* position of the caller: which operation ran last
    job_data,      \* list of raw postings handed to the DataProcessor
    jobs,          \* list returned by the DataProcessor operation that ran
    leads,         \* list of lead dicts (format_lead_data / enrichment / dedup input)
    sheet,         \* the spreadsheet: sequence of rows, first row maybe the header
    unique_leads,  \* list returned by check_duplicate_leads
    read_ok,       \* outcome of the spreadsheet read of the last check_duplicate_leads
    campaign,      \* the campaign sink: linkedin_url of the leads it holds
    results,       \* summary returned by add_leads_batch
    run,           \* number of pipeline runs that dispatched to the store so far
    first_run,     \* what save_leads returned in the first run that dispatched
    enriched,      \* list returned by find_emails_batch / generate_compliments_batch
    calls,         \* external requests and sleeps of the operation that ran, in order
    replies        \* what the collaborator answered for each lead of the operation
                   \* that ran (NoValue where it was not called)

vars == <<pc, job_data, jobs, leads, sheet, unique_leads, read_ok, campaign,
          results, run, first_run, enriched, calls, replies>>

-----------------------------------------------------------------------------
(* Bounds of the model.                                                     *)

MaxBatch == 2
\* data rows the spreadsheet may hold before save_leads is no longer exercised
MaxRows == 2

\* the counter of pipeline runs stops counting here
MaxRuns == 2

-----------------------------------------------------------------------------
(* Characters and Python str operations.                                    *)

UpperLetters == <<"A","B","C","D","E","F","G","H","I","J","K","L","M",
                  "N","O","P","Q","R","S","T","U","V","W","X","Y","Z">>
LowerLetters == <<"a","b","c","d","e","f","g","h","i","j","k","l","m",
                  "n","o","p","q","r","s","t","u","v","w","x","y","z">>
DigitChars == <<"0","1","2","3","4","5","6","7","8","9">>

Range(f) == {f[i] : i \in DOMAIN f}

IsDigit(c) == c \in Range(DigitChars)
IsSpace(c) == c \in {" ", "\t", "\n"}
\* \w of the re module
IsWordChar(c) == c \in Range(UpperLetters) \cup Range(LowerLetters)
                       \cup Range(DigitChars) \cup {"_"}

DigitVal(c) == (CHOOSE i \in 1..10 : DigitChars[i] = c) - 1

ToLowerChar(c) ==
    IF c \in Range(UpperLetters)
    THEN LowerLetters[CHOOSE i \in 1..26 : UpperLetters[i] = c]
    ELSE c

\* str.lower()
lower(s) == [i \in 1..Len(s) |-> ToLowerChar(s[i])]

\* int() of a run of digits
RECURSIVE int_of_digits(_)
int_of_digits(ds) ==
    IF ds = <<>> THEN 0
    ELSE 10 * int_of_digits(SubSeq(ds, 1, Len(ds) - 1)) + DigitVal(ds[Len(ds)])

\* re.findall(r'\d+', s)[0] when it exists, <<>> when findall returns []
first_digit_run(s) ==
    IF \A i \in 1..Len(s) : ~IsDigit(s[i]) THEN <<>>
    ELSE LET b == CHOOSE i \in 1..Len(s) :
                      IsDigit(s[i]) /\ \A j \in 1..(i-1) : ~IsDigit(s[j])
             e == CHOOSE i \in b..Len(s) :
                      /\ \A j \in b..i : IsDigit(s[j])
                      /\ (i = Len(s) \/ ~IsDigit(s[i+1]))
         IN  SubSeq(s, b, e)

\* str.strip()
RECURSIVE lstrip(_)
lstrip(s) == IF s # <<>> /\ IsSpace(s[1]) THEN lstrip(Tail(s)) ELSE s
RECURSIVE rstrip(_)
rstrip(s) == IF s # <<>> /\ IsSpace(s[Len(s)])
             THEN rstrip(SubSeq(s, 1, Len(s) - 1)) ELSE s
strip(s) == rstrip(lstrip(s))

\* dict.get(key, default)
Get(d, key, default) == IF key \in DOMAIN d THEN d[key] ELSE default

-----------------------------------------------------------------------------
(* Values of a posting's employee_count: missing, a number, or a str.       *)

NoValue == [k |-> "none"]
IntV(n) == [k |-> "int", n |-> n]
StrV(s) == [k |-> "str", s |-> s]

-----------------------------------------------------------------------------
(* config.py                                                                *)

min_employee_count == 200

-----------------------------------------------------------------------------
(* data_processor.py                                                        *)

company_suffixes == <<
    <<"I","n","c">>, <<"L","L","C">>, <<"L","t","d">>, <<"L","T","D">>,
    <<"C","o","r","p">>, <<"C","o","r","p","o","r","a","t","i","o","n">>,
    <<"C","o","m","p","a","n","y">>, <<"C","o">>,
    <<"L","i","m","i","t","e","d">>,
    <<"I","n","c","o","r","p","o","r","a","t","e","d">>,
    <<"G","r","o","u","p">>, <<"P","a","r","t","n","e","r","s">>,
    <<"A","s","s","o","c","i","a","t","e","s">>,
    <<"I","n","t","e","r","n","a","t","i","o","n","a","l">>,
    <<"I","n","t","l">>,
    <<"T","e","c","h","n","o","l","o","g","i","e","s">>,
    <<"T","e","c","h">>, <<"S","o","f","t","w","a","r","e">>,
    <<"S","y","s","t","e","m","s">>, <<"S","o","l","u","t","i","o","n","s">>,
    <<"S","e","r","v","i","c","e","s">>,
    <<"E","n","t","e","r","p","r","i","s","e","s">>,
    <<"V","e","n","t","u","r","e","s">>, <<"H","o","l","d","i","n","g","s">> >>

\* The integer the threshold is compared with; NoValue when the posting is
\* skipped before the comparison (missing value, or a str without a digit).
extract_employee_count(job) ==
    LET employee_count == Get(job, "employee_count", NoValue)
    IN  IF employee_count.k = "none" THEN NoValue
        ELSE IF employee_count.k = "str"
             THEN LET numbers == first_digit_run(employee_count.s)
                  IN  IF numbers # <<>> THEN IntV(int_of_digits(numbers))
                      ELSE NoValue
             ELSE IntV(employee_count.n)

\* the comparison written with > in place of >=
passes_threshold_strict(job) ==
    LET c == extract_employee_count(job)
    IN  c.k = "int" /\ c.n > min_employee_count

passes_threshold(job) ==
    LET c == extract_employee_count(job)
    IN  c.k = "int" /\ c.n >= min_employee_count

filter_by_employee_count(data) == SelectSeq(data, passes_threshold)

RECURSIVE remove_duplicates_from(_, _)
remove_duplicates_from(data, seen_urls) ==
    IF data = <<>> THEN <<>>
    ELSE LET job == Head(data)
             company_url == Get(job, "company_linkedin_url", <<>>)
         IN  IF company_url = <<>> THEN remove_duplicates_from(Tail(data), seen_urls)
             ELSE IF company_url \notin seen_urls
                  THEN <<job>> \o remove_duplicates_from(Tail(data),
                                                         seen_urls \cup {company_url})
                  ELSE remove_duplicates_from(Tail(data), seen_urls)

\* the scan without seen_urls.add: every posting with a URL is kept
remove_duplicates_no_seen(data) ==
    SelectSeq(data, LAMBDA job : Get(job, "company_linkedin_url", <<>>) # <<>>)

remove_duplicates(data) == remove_duplicates_from(data, {})

\* \b at position i of s (between s[i-1] and s[i])
word_boundary(s, i) ==
    (i > 1 /\ IsWordChar(s[i-1])) # (i <= Len(s) /\ IsWordChar(s[i]))

\* rf'\b{suffix}\b' with re.IGNORECASE matches s at position i
suffix_matches_at(s, i, suffix) ==
    /\ i + Len(suffix) - 1 <= Len(s)
    /\ \A k \in 1..Len(suffix) : ToLowerChar(s[i+k-1]) = ToLowerChar(suffix[k])
    /\ word_boundary(s, i)
    /\ word_boundary(s, i + Len(suffix))

\* re.sub(rf'\b{suffix}\b', '', s, flags=re.IGNORECASE), scanning from i
RECURSIVE remove_suffix_from(_, _, _)
remove_suffix_from(s, i, suffix) ==
    IF i > Len(s) THEN <<>>
    ELSE IF suffix_matches_at(s, i, suffix)
         THEN remove_suffix_from(s, i + Len(suffix), suffix)
         ELSE <<s[i]>> \o remove_suffix_from(s, i + 1, suffix)

RECURSIVE remove_suffixes(_, _)
remove_suffixes(s, n) ==
    IF n > Len(company_suffixes) THEN s
    ELSE remove_suffixes(remove_suffix_from(s, 1, company_suffixes[n]), n + 1)

\* re.sub(r'\s+', ' ', s)
RECURSIVE collapse_whitespace(_)
collapse_whitespace(s) ==
    IF s = <<>> THEN <<>>
    ELSE IF IsSpace(s[1])
         THEN <<" ">> \o collapse_whitespace(lstrip(s))
         ELSE <<s[1]>> \o collapse_whitespace(Tail(s))

\* a variant that strips one trailing character only
strip_one_trailing_punctuation(s) ==
    IF s # <<>> /\ (s[Len(s)] = "," \/ IsSpace(s[Len(s)]))
    THEN SubSeq(s, 1, Len(s) - 1)
    ELSE s

\* re.sub(r'[,\s]+$', '', s)
RECURSIVE strip_trailing_punctuation(_)
strip_trailing_punctuation(s) ==
    IF s # <<>> /\ (s[Len(s)] = "," \/ IsSpace(s[Len(s)]))
    THEN strip_trailing_punctuation(SubSeq(s, 1, Len(s) - 1))
    ELSE s

clean_company_name(company_name) ==
    IF company_name = <<>> THEN company_name
    ELSE strip_trailing_punctuation(
             collapse_whitespace(strip(remove_suffixes(company_name, 1))))

clean_job(job) ==
    LET company_name == Get(job, "company_name", <<>>)
    IN  IF company_name # <<>>
        THEN [company_name_cleaned |-> clean_company_name(company_name),
              company_name_original |-> company_name] @@ job
        ELSE job

clean_company_names(data) == [i \in 1..Len(data) |-> clean_job(data[i])]

has_required_fields(job) ==
    /\ Get(job, "company_name", <<>>) # <<>>
    /\ Get(job, "job_poster_name", <<>>) # <<>>
    /\ Get(job, "company_website", <<>>) # <<>>

validate_required_fields(data) == SelectSeq(data, has_required_fields)

filter_and_clean(data) ==
    validate_required_fields(
        clean_company_names(
            remove_duplicates(
                filter_by_employee_count(data))))

\* str.split()
RECURSIVE split(_)
split(s) ==
    LET t == lstrip(s)
    IN  IF t = <<>> THEN <<>>
        ELSE LET n == IF \E i \in 1..Len(t) : IsSpace(t[i])
                      THEN (CHOOSE i \in 1..Len(t) :
                                IsSpace(t[i]) /\ \A j \in 1..(i-1) : ~IsSpace(t[j])) - 1
                      ELSE Len(t)
             IN  <<SubSeq(t, 1, n)>> \o split(SubSeq(t, n + 1, Len(t)))

\* ' '.join(parts)
RECURSIVE join_with_space(_)
join_with_space(parts) ==
    IF parts = <<>> THEN <<>>
    ELSE IF Len(parts) = 1 THEN parts[1]
         ELSE parts[1] \o <<" ">> \o join_with_space(Tail(parts))

\* a variant that keeps the last token only as last name
extract_name_parts_last_token(full_name) ==
    IF full_name = <<>> THEN [first_name |-> <<>>, last_name |-> <<>>]
    ELSE LET name_parts == split(full_name)
         IN  IF Len(name_parts) = 0 THEN [first_name |-> <<>>, last_name |-> <<>>]
             ELSE IF Len(name_parts) = 1
                  THEN [first_name |-> name_parts[1], last_name |-> <<>>]
                  ELSE [first_name |-> name_parts[1],
                        last_name |-> name_parts[Len(name_parts)]]

extract_name_parts(full_name) ==
    IF full_name = <<>> THEN [first_name |-> <<>>, last_name |-> <<>>]
    ELSE LET name_parts == split(full_name)
         IN  IF Len(name_parts) = 0 THEN [first_name |-> <<>>, last_name |-> <<>>]
             ELSE IF Len(name_parts) = 1
                  THEN [first_name |-> name_parts[1], last_name |-> <<>>]
                  ELSE [first_name |-> name_parts[1],
                        last_name |-> join_with_space(Tail(name_parts))]

starts_with(s, prefix) ==
    Len(s) >= Len(prefix) /\ SubSeq(s, 1, Len(prefix)) = prefix

drop_prefix(s, prefix) ==
    IF starts_with(s, prefix) THEN SubSeq(s, Len(prefix) + 1, Len(s)) ELSE s

s_http == <<"h","t","t","p",":","/","/">>
s_https == <<"h","t","t","p","s",":","/","/">>
s_www == <<"w","w","w",".">>

\* s.split('/')[0]
before_first_slash(s) ==
    IF \E i \in 1..Len(s) : s[i] = "/"
    THEN SubSeq(s, 1, (CHOOSE i \in 1..Len(s) :
                           s[i] = "/" /\ \A j \in 1..(i-1) : s[j] # "/") - 1)
    ELSE s

extract_domain_from_url(url) ==
    IF url = <<>> THEN <<>>
    ELSE LET no_protocol == IF starts_with(url, s_https) THEN drop_prefix(url, s_https)
                            ELSE drop_prefix(url, s_http)
         IN  drop_prefix(before_first_slash(no_protocol), s_www)

format_lead_data(job) ==
    LET name_parts == extract_name_parts(Get(job, "job_poster_name", <<>>))
    IN  [first_name |-> name_parts.first_name,
         last_name |-> name_parts.last_name,
         full_name |-> Get(job, "job_poster_name", <<>>),
         title |-> Get(job, "job_poster_title", <<>>),
         company_name |-> Get(job, "company_name_cleaned", Get(job, "company_name", <<>>)),
         company_name_original |->
             Get(job, "company_name_original", Get(job, "company_name", <<>>)),
         company_website |-> Get(job, "company_website", <<>>),
         company_domain |-> extract_domain_from_url(Get(job, "company_website", <<>>)),
         company_linkedin_url |-> Get(job, "company_linkedin_url", <<>>),
         job_title |-> Get(job, "job_title", <<>>),
         job_location |-> Get(job, "job_location", <<>>),
         employee_count |-> Get(job, "employee_count", StrV(<<>>)),
         company_industry |-> Get(job, "company_industry", <<>>),
         job_url |-> Get(job, "job_url", <<>>),
         posted_date |-> Get(job, "posted_date", <<>>),
         scraped_at |-> Get(job, "scraped_at", <<>>),
         email |-> <<>>,
         email_confidence |-> <<>>,
         compliment |-> <<>>,
         status |-> <<"n","e","w">>]

-----------------------------------------------------------------------------
(* Inputs: the raw postings the DataProcessor is exercised on.              *)

s_Acme == <<"A","c","m","e">>
s_Inc == <<"I","n","c">>
s_Acme_Inc == s_Acme \o <<" ">> \o s_Inc
s_Jo == <<"J","o">>
s_Jo_Do == <<"J","o"," ","D","o">>
s_a_co == <<"a",".","c","o">>
s_u1 == <<"u","1">>
s_u2 == <<"u","2">>

EmployeeCounts ==
    { IntV(199), IntV(200), IntV(201),
      StrV(<<"2","0","0">>), StrV(<<"1","9","9">>),
      StrV(<<"2","5","0","-","5","0","0"," ","e">>),
      StrV(<<"1",",","5","0","0">>),
      StrV(<<"e"," ","3","0","0">>),
      StrV(<<"e">>), StrV(<<>>) }

Posting(e, c, p, w, u) ==
    [employee_count |-> e, company_name |-> c, job_poster_name |-> p,
     company_website |-> w, company_linkedin_url |-> u]

PostingWithoutCount(c, p, w, u) ==
    [company_name |-> c, job_poster_name |-> p,
     company_website |-> w, company_linkedin_url |-> u]

s_250_500_employees ==
    <<"2","5","0","-","5","0","0"," ","e","m","p","l","o","y","e","e","s">>
s_Acme_Solutions_Inc ==
    s_Acme \o <<" ","S","o","l","u","t","i","o","n","s"," ">> \o s_Inc
s_John_Smith == <<"J","o","h","n"," ","S","m","i","t","h">>
s_https_www_acme_com_careers ==
    <<"h","t","t","p","s",":","/","/","w","w","w",".","a","c","m","e",".","c","o","m",
      "/","c","a","r","e","e","r","s">>

\* a posting as the scraper delivers it
ExamplePosting ==
    Posting(StrV(s_250_500_employees), s_Acme_Solutions_Inc, s_John_Smith,
            s_https_www_acme_com_careers, s_u1)

Postings ==
    { Posting(e, s_Acme_Inc, s_Jo_Do, s_a_co, s_u1) : e \in EmployeeCounts }
    \cup { PostingWithoutCount(s_Acme_Inc, s_Jo_Do, s_a_co, s_u1) }
    \cup { Posting(IntV(200), c, p, w, s_u1) :
               c \in {<<>>, s_Inc, s_Acme_Inc}, p \in {<<>>, s_Jo_Do},
               w \in {<<>>, s_a_co} }
    \cup { Posting(IntV(200), c, s_Jo, s_a_co, u) :
               c \in {s_Acme, s_Acme_Inc}, u \in {<<>>, s_u1, s_u2} }
    \cup { ExamplePosting }

SeqsUpTo(S, n) == UNION { [1..k -> S] : k \in 0..n }

Batches == SeqsUpTo(Postings, MaxBatch)

-----------------------------------------------------------------------------
(* The DataProcessor exercised operation by operation on a raw batch.       *)

Idle ==
    /\ jobs = <<>> /\ leads = <<>> /\ sheet = <<>> /\ unique_leads = <<>>
    /\ read_ok = TRUE /\ campaign = {} /\ results = [success |-> 0, failed |-> 0, duplicates |-> 0]
    /\ run = 0 /\ first_run = NoValue
    /\ enriched = <<>> /\ calls = <<>> /\ replies = <<>>

InitNormalizer ==
    /\ pc = "start"
    /\ job_data \in Batches
    /\ Idle

FilterByEmployeeCount ==
    /\ pc = "start"
    /\ jobs' = filter_by_employee_count(job_data)
    /\ pc' = "filter_by_employee_count"
    /\ UNCHANGED <<job_data, leads, sheet, unique_leads, read_ok, campaign,
                   results, run, first_run, enriched, calls, replies>>

RemoveDuplicates ==
    /\ pc = "start"
    /\ jobs' = remove_duplicates(job_data)
    /\ pc' = "remove_duplicates"
    /\ UNCHANGED <<job_data, leads, sheet, unique_leads, read_ok, campaign,
                   results, run, first_run, enriched, calls, replies>>

CleanCompanyNames ==
    /\ pc = "start"
    /\ jobs' = clean_company_names(job_data)
    /\ pc' = "clean_company_names"
    /\ UNCHANGED <<job_data, leads, sheet, unique_leads, read_ok, campaign,
                   results, run, first_run, enriched, calls, replies>>

ValidateRequiredFields ==
    /\ pc = "start"
    /\ jobs' = validate_required_fields(job_data)
    /\ pc' = "validate_required_fields"
    /\ UNCHANGED <<job_data, leads, sheet, unique_leads, read_ok, campaign,
                   results, run, first_run, enriched, calls, replies>>

FilterAndClean ==
    /\ pc = "start"
    /\ jobs' = filter_and_clean(job_data)
    /\ pc' = "filter_and_clean"
    /\ UNCHANGED <<job_data, leads, sheet, unique_leads, read_ok, campaign,
                   results, run, first_run, enriched, calls, replies>>

\* the caller maps format_lead_data over what filter_and_clean returned
FormatLeadData ==
    /\ pc = "filter_and_clean"
    /\ leads' = [i \in 1..Len(jobs) |-> format_lead_data(jobs[i])]
    /\ pc' = "format_lead_data"
    /\ UNCHANGED <<job_data, jobs, sheet, unique_leads, read_ok, campaign,
                   results, run, first_run, enriched, calls, replies>>

NextNormalizer ==
    \/ FilterByEmployeeCount
    \/ RemoveDuplicates
    \/ CleanCompanyNames
    \/ ValidateRequiredFields
    \/ FilterAndClean
    \/ FormatLeadData

SpecNormalizer == InitNormalizer /\ [][NextNormalizer]_vars

-----------------------------------------------------------------------------
(* google_sheets_manager.py                                                 *)
(*                                                                          *)
(* A row of the sheet is modelled by the two cells the program reads back   *)
(* (columns Email and Company Name); the other eighteen columns are written *)
(* by _prepare_sheet_data and never read.  The header row written by        *)
(* create_sheet_with_headers is HeaderRow.                                  *)

HeaderRow == [header |-> TRUE]

s_email == <<"e","m","a","i","l">>
s_company_name == <<"c","o","m","p","a","n","y","_","n","a","m","e">>

\* row = [str(cell).strip() ...] for one lead
sheet_row(lead) ==
    [email |-> strip(Get(lead, "email", <<>>)),
     company_name |-> strip(Get(lead, "company_name", <<>>))]

prepare_sheet_data(leads_data) ==
    [i \in 1..Len(leads_data) |-> sheet_row(leads_data[i])]

\* values().append(...): the rows are added below the existing ones;
\* an HttpError or any other exception leaves the sheet as it was
append_to_sheet(sh, sheet_data, api_ok) ==
    IF api_ok THEN sh \o sheet_data ELSE sh

\* the external events of save_leads: one append request with every row
save_leads_events(leads_data) ==
    <<[op |-> "append", rows |-> prepare_sheet_data(leads_data)]>>

\* header.lower().replace(' ', '_')
header_key(cell) ==
    [i \in 1..Len(cell) |-> IF cell[i] = " " THEN "_" ELSE ToLowerChar(cell[i])]

\* the dict built for one row under the first row of the sheet
existing_lead(first_row, row) ==
    IF "header" \in DOMAIN first_row
    THEN [email |-> row.email, company_name |-> row.company_name]
    ELSE LET k_email == header_key(first_row.email)
             k_company == header_key(first_row.company_name)
             lookup(key) == IF k_company = key THEN row.company_name
                            ELSE IF k_email = key THEN row.email
                            ELSE <<>>
         IN  [email |-> lookup(s_email), company_name |-> lookup(s_company_name)]

get_existing_leads(sh, api_ok) ==
    IF ~api_ok THEN <<>>
    ELSE IF Len(sh) < 2 THEN <<>>
    ELSE [i \in 1..(Len(sh) - 1) |-> existing_lead(sh[1], sh[i + 1])]

\* f"{email}_{company}"
combination(email, company) == email \o <<"_">> \o company

existing_combinations_of(existing_leads) ==
    { combination(lower(Get(existing_leads[i], "email", <<>>)),
                  lower(Get(existing_leads[i], "company_name", <<>>))) :
          i \in { j \in 1..Len(existing_leads) :
                      /\ Get(existing_leads[j], "email", <<>>) # <<>>
                      /\ Get(existing_leads[j], "company_name", <<>>) # <<>> } }

existing_company_names(existing_leads) ==
    { lower(Get(existing_leads[i], "company_name", <<>>)) : i \in 1..Len(existing_leads) }

\* the loop over new_leads (lines 312-325)
RECURSIVE filter_duplicates(_, _, _)
filter_duplicates(new_leads, existing_combinations, existing_leads) ==
    IF new_leads = <<>> THEN <<>>
    ELSE LET lead == Head(new_leads)
             email == lower(Get(lead, "email", <<>>))
             company == lower(Get(lead, "company_name", <<>>))
         IN  IF email # <<>> /\ company # <<>>
             THEN IF combination(email, company) \notin existing_combinations
                  THEN <<lead>> \o filter_duplicates(Tail(new_leads),
                                       existing_combinations \cup {combination(email, company)},
                                       existing_leads)
                  ELSE filter_duplicates(Tail(new_leads), existing_combinations,
                                         existing_leads)
             ELSE IF company # <<>> /\ company \notin existing_company_names(existing_leads)
                  THEN <<lead>> \o filter_duplicates(Tail(new_leads), existing_combinations,
                                                     existing_leads)
                  ELSE filter_duplicates(Tail(new_leads), existing_combinations,
                                         existing_leads)

\* an unreadable or empty store answered by an empty result
check_duplicate_leads_drop_on_empty(new_leads, existing_leads) ==
    IF existing_leads = <<>> THEN <<>>
    ELSE filter_duplicates(new_leads, existing_combinations_of(existing_leads),
                           existing_leads)

\* the keys compared without .lower()
RECURSIVE filter_duplicates_case_sensitive(_, _, _)
filter_duplicates_case_sensitive(new_leads, existing_combinations, existing_leads) ==
    IF new_leads = <<>> THEN <<>>
    ELSE LET lead == Head(new_leads)
             email == Get(lead, "email", <<>>)
             company == Get(lead, "company_name", <<>>)
             rest(seen) == filter_duplicates_case_sensitive(Tail(new_leads), seen,
                                                            existing_leads)
         IN  IF email # <<>> /\ company # <<>>
             THEN IF combination(email, company) \notin existing_combinations
                  THEN <<lead>> \o rest(existing_combinations
                                            \cup {combination(email, company)})
                  ELSE rest(existing_combinations)
             ELSE IF company # <<>>
                     /\ company \notin { Get(existing_leads[i], "company_name", <<>>) :
                                             i \in 1..Len(existing_leads) }
                  THEN <<lead>> \o rest(existing_combinations)
                  ELSE rest(existing_combinations)

check_duplicate_leads_case_sensitive(new_leads, existing_leads) ==
    IF existing_leads = <<>> THEN new_leads
    ELSE filter_duplicates_case_sensitive(
             new_leads,
             { combination(Get(existing_leads[i], "email", <<>>),
                           Get(existing_leads[i], "company_name", <<>>)) :
                   i \in { j \in 1..Len(existing_leads) :
                               /\ Get(existing_leads[j], "email", <<>>) # <<>>
                               /\ Get(existing_leads[j], "company_name", <<>>) # <<>> } },
             existing_leads)

check_duplicate_leads(new_leads, existing_leads) ==
    IF existing_leads = <<>> THEN new_leads
    ELSE filter_duplicates(new_leads, existing_combinations_of(existing_leads),
                           existing_leads)

-----------------------------------------------------------------------------
(* email_finder.py                                                          *)

wait_time_between_requests == 1

\* str.replace(old, new) for a non-empty old: the leftmost occurrence is
\* replaced and the search resumes after it
RECURSIVE replace_all(_, _, _)
replace_all(s, old, new) ==
    LET found == {i \in 1..(Len(s) - Len(old) + 1) :
                      SubSeq(s, i, i + Len(old) - 1) = old}
    IN  IF found = {} THEN s
        ELSE LET i == CHOOSE j \in found : \A k \in found : j <= k
             IN  SubSeq(s, 1, i - 1) \o new
                 \o replace_all(SubSeq(s, i + Len(old), Len(s)), old, new)

finder_extract_domain(url) ==
    IF url = <<>> THEN <<>>
    ELSE LET no_protocol == replace_all(replace_all(url, s_https, <<>>), s_http, <<>>)
         IN  replace_all(before_first_slash(no_protocol), s_www, <<>>)

s_VALID == <<"V","A","L","I","D">>
s_unknown == <<"u","n","k","n","o","w","n">>
s_prospeo == <<"p","r","o","s","p","e","o">>
s_not_found == <<"n","o","t","_","f","o","u","n","d">>
s_jo_at_a_co == <<"j","o","@","a",".","c","o">>

\* What the Prospeo call can come back with: an HTTP response (status_code
\* and, for 200, the JSON body) or an exception of the request.
ProspeoAnswers ==
    { [status_code |-> 200, body |-> [email |-> s_jo_at_a_co, status |-> s_VALID,
                                       confidence |-> <<"9">>]],
      [status_code |-> 200, body |-> [email |-> s_jo_at_a_co, status |-> <<"R","I","S","K","Y">>]],
      [status_code |-> 200, body |-> [status |-> <<"N","O">>]],
      [status_code |-> 429],
      [status_code |-> 500],
      [exception |-> TRUE] }

\* the value _call_prospeo_api returns for an answer (NoValue for None)
call_prospeo_api(answer) ==
    IF "exception" \in DOMAIN answer THEN NoValue
    ELSE IF answer.status_code = 200
         THEN IF Get(answer.body, "email", <<>>) # <<>>
                 /\ Get(answer.body, "status", <<>>) = s_VALID
              THEN [email |-> answer.body.email,
                    confidence |-> Get(answer.body, "confidence", s_unknown),
                    status |-> Get(answer.body, "status", s_unknown),
                    source |-> s_prospeo]
              ELSE NoValue
         ELSE NoValue

\* the external events of one _call_prospeo_api: the request, and the
\* one-minute sleep on a 429
prospeo_events(first_name, last_name, company_website, answer) ==
    <<[op |-> "prospeo", firstName |-> first_name, lastName |-> last_name,
       domain |-> finder_extract_domain(company_website)]>>
    \o (IF "status_code" \in DOMAIN answer /\ answer.status_code = 429
        THEN <<[op |-> "sleep", seconds |-> 60]>> ELSE <<>>)

\* a variant that looks the email up without a company website
find_email_without_website_check(lead_data, answer) ==
    LET full_name == Get(lead_data, "job_poster_name", <<>>)
        name_parts == split(full_name)
        company_website == Get(lead_data, "company_website", <<>>)
    IN  IF full_name = <<>> THEN [email_data |-> NoValue, events |-> <<>>]
        ELSE IF Len(name_parts) < 2 THEN [email_data |-> NoValue, events |-> <<>>]
        ELSE [email_data |-> call_prospeo_api(answer),
              events |-> prospeo_events(name_parts[1], join_with_space(Tail(name_parts)),
                                        company_website, answer)]

\* find_email: the value returned (NoValue for None) and its external events
find_email(lead_data, answer) ==
    LET full_name == Get(lead_data, "job_poster_name", <<>>)
        name_parts == split(full_name)
        company_website == Get(lead_data, "company_website", <<>>)
    IN  IF full_name = <<>> THEN [email_data |-> NoValue, events |-> <<>>]
        ELSE IF Len(name_parts) < 2 THEN [email_data |-> NoValue, events |-> <<>>]
        ELSE IF company_website = <<>> THEN [email_data |-> NoValue, events |-> <<>>]
        ELSE LET first_name == name_parts[1]
                 last_name == join_with_space(Tail(name_parts))
                 email_data == call_prospeo_api(answer)
             IN  [email_data |-> IF email_data # NoValue
                                    /\ Get(email_data, "email", <<>>) # <<>>
                                 THEN email_data ELSE NoValue,
                  events |-> prospeo_events(first_name, last_name,
                                            company_website, answer)]

\* one iteration of the loop of find_emails_batch on a lead
email_enriched(lead, answer) ==
    LET email_data == find_email(lead, answer).email_data
    IN  IF email_data # NoValue
        THEN [email |-> email_data.email,
              email_confidence |-> Get(email_data, "confidence", s_unknown),
              email_status |-> Get(email_data, "status", s_unknown)] @@ lead
        ELSE [email |-> <<>>, email_confidence |-> <<>>,
              email_status |-> s_not_found] @@ lead

\* a variant that returns only the leads an email was found for
find_emails_batch_found_only(leads_data, answers) ==
    SelectSeq([i \in 1..Len(leads_data) |-> email_enriched(leads_data[i], answers[i])],
              LAMBDA lead : lead.email # <<>>)

find_emails_batch(leads_data, answers) ==
    [i \in 1..Len(leads_data) |-> email_enriched(leads_data[i], answers[i])]

RECURSIVE find_emails_batch_events(_, _)
find_emails_batch_events(leads_data, answers) ==
    IF leads_data = <<>> THEN <<>>
    ELSE find_email(Head(leads_data), Head(answers)).events
         \o <<[op |-> "sleep", seconds |-> wait_time_between_requests]>>
         \o find_emails_batch_events(Tail(leads_data), Tail(answers))

-----------------------------------------------------------------------------
(* ai_compliment_generator.py                                               *)

fallback_compliments == <<
    <<"I","'","v","e"," ","b","e","e","n"," ","f","o","l","l","o","w","i",
          "n","g"," ","y","o","u","r"," ","c","o","m","p","a","n","y","'",
          "s"," ","g","r","o","w","t","h"," ","a","n","d"," ","I","'","m",
          " ","i","m","p","r","e","s","s","e","d"," ","b","y"," ","y","o",
          "u","r"," ","i","n","n","o","v","a","t","i","v","e"," ","a","p",
          "p","r","o","a","c","h",".">>,
    <<"Y","o","u","r"," ","c","o","m","p","a","n","y","'","s"," ","m","i",
          "s","s","i","o","n"," ","r","e","a","l","l","y"," ","r","e","s",
          "o","n","a","t","e","s"," ","w","i","t","h"," ","m","e",","," ",
          "a","n","d"," ","I"," ","l","o","v","e"," ","w","h","a","t"," ",
          "y","o","u","'","r","e"," ","b","u","i","l","d","i","n","g",
          ".">>,
    <<"I","'","v","e"," ","h","e","a","r","d"," ","g","r","e","a","t"," ",
          "t","h","i","n","g","s"," ","a","b","o","u","t"," ","y","o","u",
          "r"," ","t","e","a","m"," ","a","n","d"," ","t","h","e"," ","w",
          "o","r","k"," ","y","o","u","'","r","e"," ","d","o","i","n","g",
          ".">>,
    <<"Y","o","u","r"," ","c","o","m","p","a","n","y","'","s"," ","r","e",
          "c","e","n","t"," ","a","c","h","i","e","v","e","m","e","n","t",
          "s"," ","h","a","v","e"," ","c","a","u","g","h","t"," ","m","y",
          " ","a","t","t","e","n","t","i","o","n",","," ","a","n","d"," ",
          "I","'","m"," ","e","x","c","i","t","e","d"," ","a","b","o","u",
          "t"," ","y","o","u","r"," ","v","i","s","i","o","n",".">>,
    <<"I"," ","a","p","p","r","e","c","i","a","t","e"," ","t","h","e"," ",
          "i","n","n","o","v","a","t","i","v","e"," ","s","o","l","u","t",
          "i","o","n","s"," ","y","o","u","r"," ","c","o","m","p","a","n",
          "y"," ","i","s"," ","d","e","v","e","l","o","p","i","n","g",
          ".">>,
    <<"Y","o","u","r"," ","c","o","m","p","a","n","y","'","s"," ","c","o",
          "m","m","i","t","m","e","n","t"," ","t","o"," ","e","x","c","e",
          "l","l","e","n","c","e"," ","i","s"," ","t","r","u","l","y"," ",
          "i","n","s","p","i","r","i","n","g",".">>,
    <<"I","'","v","e"," ","b","e","e","n"," ","i","m","p","r","e","s","s",
          "e","d"," ","b","y"," ","y","o","u","r"," ","c","o","m","p","a",
          "n","y","'","s"," ","m","a","r","k","e","t"," ","p","r","e","s",
          "e","n","c","e"," ","a","n","d"," ","g","r","o","w","t","h"," ",
          "t","r","a","j","e","c","t","o","r","y",".">>,
    <<"Y","o","u","r"," ","c","o","m","p","a","n","y","'","s"," ","a","p",
          "p","r","o","a","c","h"," ","t","o"," ","s","o","l","v","i","n",
          "g"," ","i","n","d","u","s","t","r","y"," ","c","h","a","l","l",
          "e","n","g","e","s"," ","i","s"," ","r","e","m","a","r","k","a",
          "b","l","e",".">>,
    <<"I"," ","a","d","m","i","r","e"," ","y","o","u","r"," ","c","o","m",
          "p","a","n","y","'","s"," ","d","e","d","i","c","a","t","i","o",
          "n"," ","t","o"," ","c","u","s","t","o","m","e","r"," ","s","u",
          "c","c","e","s","s",".">>,
    <<"Y","o","u","r"," ","c","o","m","p","a","n","y","'","s"," ","c","u",
          "l","t","u","r","e"," ","a","n","d"," ","v","a","l","u","e","s",
          " ","r","e","a","l","l","y"," ","s","t","a","n","d"," ","o","u",
          "t"," ","i","n"," ","t","h","e"," ","i","n","d","u","s","t","r",
          "y",".">> >>

invalid_phrases == <<
    <<"I","'","m"," ","s","o","r","r","y">>,
    <<"I"," ","c","a","n","n","o","t">>,
    <<"I"," ","d","o","n","'","t"," ","h","a","v","e">>,
    <<"I","'","m"," ","u","n","a","b","l","e">>,
    <<"I"," ","c","a","n","n","o","t"," ","p","r","o","v","i","d","e">>,
    <<"I"," ","d","o","n","'","t"," ","h","a","v","e"," ","a","c","c","e",
          "s","s">>,
    <<"I","'","m"," ","n","o","t"," ","a","b","l","e">>,
    <<"I"," ","c","a","n","n","o","t"," ","g","e","n","e","r","a","t",
          "e">>,
    <<"I"," ","d","o","n","'","t"," ","h","a","v","e"," ","i","n","f","o",
          "r","m","a","t","i","o","n">>,
    <<"I"," ","c","a","n","n","o","t"," ","c","r","e","a","t","e">> >>

s_your_company == <<"y","o","u","r"," ","c","o","m","p","a","n","y">>
s_Your_company == <<"Y","o","u","r"," ","c","o","m","p","a","n","y">>

\* old in s
contains(s, old) ==
    \E i \in 1..(Len(s) - Len(old) + 1) : SubSeq(s, i, i + Len(old) - 1) = old

\* str.count(c) of a single character
count_char(s, c) == Cardinality({i \in 1..Len(s) : s[i] = c})

\* a variant whose length bounds are exclusive
validate_compliment_exclusive_bounds(compliment) ==
    IF compliment = <<>> THEN FALSE
    ELSE IF Len(compliment) <= 20 \/ Len(compliment) >= 300 THEN FALSE
    ELSE IF \E n \in 1..Len(invalid_phrases) :
                contains(lower(compliment), lower(invalid_phrases[n])) THEN FALSE
    ELSE IF count_char(compliment, "!") > 2 \/ count_char(compliment, "?") > 1 THEN FALSE
    ELSE TRUE

validate_compliment(compliment) ==
    IF compliment = <<>> THEN FALSE
    ELSE IF Len(compliment) < 20 \/ Len(compliment) > 300 THEN FALSE
    ELSE IF \E n \in 1..Len(invalid_phrases) :
                contains(lower(compliment), lower(invalid_phrases[n])) THEN FALSE
    ELSE IF count_char(compliment, "!") > 2 \/ count_char(compliment, "?") > 1 THEN FALSE
    ELSE TRUE

\* What the OpenAI call can come back with: a completion text, or one of
\* the exceptions the method catches.
s_good_text == <<"Y","o","u"," ","s","h","i","p"," ","g","r","e","a","t"," ","w","o",
          "r","k",","," ","t","r","u","l","y",".">>
s_refusal_text == <<"I"," ","c","a","n","n","o","t"," ","h","e","l","p"," ","w","i","t",
          "h"," ","t","h","i","s"," ","r","e","q","u","e","s","t",".">>

OpenAIAnswers ==
    { [content |-> s_good_text], [content |-> s_refusal_text],
      [exception |-> "RateLimitError"], [exception |-> "APIError"],
      [exception |-> "Exception"] }

\* _generate_ai_compliment: the compliment, or NoValue for None
generate_ai_compliment(company_name, website_content, answer) ==
    IF "exception" \in DOMAIN answer THEN NoValue
    ELSE LET compliment == strip(answer.content)
         IN  IF validate_compliment(compliment) THEN [text |-> compliment]
             ELSE NoValue

\* _get_fallback_compliment with random.choice having picked template `choice`
get_fallback_compliment(company_name, choice) ==
    LET compliment == fallback_compliments[choice]
    IN  IF company_name # <<>> /\ Len(company_name) < 50
        THEN replace_all(replace_all(compliment, s_your_company, company_name),
                         s_Your_company, company_name)
        ELSE compliment

generate_compliment(company_name, website_content, answer, choice) ==
    LET ai_compliment == generate_ai_compliment(company_name, website_content, answer)
    IN  IF ai_compliment # NoValue THEN ai_compliment.text
        ELSE get_fallback_compliment(company_name, choice)

\* a variant of the iteration that also resets the email of the lead
compliment_enriched_clearing_email(lead, answer, choice) ==
    [compliment |-> generate_compliment(Get(lead, "company_name", <<>>),
                                       Get(lead, "website_content", <<>>),
                                       answer, choice),
     email |-> <<>>] @@ lead

\* one iteration of the loop of generate_compliments_batch on a lead
compliment_enriched(lead, answer, choice) ==
    [compliment |-> generate_compliment(Get(lead, "company_name", <<>>),
                                       Get(lead, "website_content", <<>>),
                                       answer, choice)] @@ lead

\* what one iteration can leave in the lead: the OpenAI answer and the draw
\* of random.choice of an iteration do not depend on the other iterations
compliment_outcomes(lead) ==
    { compliment_enriched(lead, answer, choice) :
          answer \in OpenAIAnswers, choice \in 1..Len(fallback_compliments) }

\* the lists generate_compliments_batch can return for leads_data
generate_compliments_batch(leads_data) ==
    LET outcomes == [i \in 1..Len(leads_data) |-> compliment_outcomes(leads_data[i])]
    IN  { enriched_leads \in [1..Len(leads_data) -> UNION Range(outcomes)] :
              \A i \in 1..Len(leads_data) : enriched_leads[i] \in outcomes[i] }

-----------------------------------------------------------------------------
(* heyreach_manager.py                                                      *)

\* config.heyreach_campaign_id, read from the environment
heyreach_campaign_id == <<"c","1">>

\* truth value of an employee_count
truthy_count(v) ==
    IF v.k = "int" THEN v.n # 0
    ELSE IF v.k = "str" THEN v.s # <<>>
    ELSE FALSE

\* {k: v for k, v in d.items() if v} over str values
without_empty(d) == [key \in {k \in DOMAIN d : d[k] # <<>>} |-> d[key]]

prepare_lead_data(lead_data) ==
    LET text == [campaign_id |-> heyreach_campaign_id,
                 first_name |-> Get(lead_data, "first_name", <<>>),
                 last_name |-> Get(lead_data, "last_name", <<>>),
                 email |-> Get(lead_data, "email", <<>>),
                 company |-> Get(lead_data, "company_name", <<>>),
                 title |-> Get(lead_data, "title", <<>>),
                 website |-> Get(lead_data, "company_website", <<>>),
                 linkedin_url |-> Get(lead_data, "company_linkedin_url", <<>>),
                 location |-> Get(lead_data, "job_location", <<>>),
                 industry |-> Get(lead_data, "company_industry", <<>>)]
        employee_count == Get(lead_data, "employee_count", StrV(<<>>))
        custom_fields ==
                [compliment |-> Get(lead_data, "compliment", <<>>),
                 job_title |-> Get(lead_data, "job_title", <<>>),
                 job_url |-> Get(lead_data, "job_url", <<>>),
                 posted_date |-> Get(lead_data, "posted_date", <<>>),
                 scraped_at |-> Get(lead_data, "scraped_at", <<>>),
                 email_confidence |-> Get(lead_data, "email_confidence", <<>>),
                 company_domain |-> Get(lead_data, "company_domain", <<>>),
                 company_name_original |-> Get(lead_data, "company_name_original", <<>>),
                 full_name |-> Get(lead_data, "full_name", <<>>)]
    IN  [custom_fields |-> without_empty(custom_fields)]
        @@ (IF truthy_count(employee_count)
            THEN [employee_count |-> employee_count] @@ without_empty(text)
            ELSE without_empty(text))

\* What the POST to the campaign can come back with.
HeyReachAnswers ==
    { [status_code |-> 200], [status_code |-> 201], [status_code |-> 409],
      [status_code |-> 429], [status_code |-> 500], [exception |-> TRUE] }

\* a variant that takes 409 for a failure
add_lead_to_campaign_conflict_fails(lead_data, answer) ==
    IF "exception" \in DOMAIN answer THEN FALSE
    ELSE IF answer.status_code = 200 \/ answer.status_code = 201 THEN TRUE
    ELSE FALSE

add_lead_to_campaign(lead_data, answer) ==
    IF "exception" \in DOMAIN answer THEN FALSE
    ELSE IF answer.status_code = 200 \/ answer.status_code = 201 THEN TRUE
    ELSE IF answer.status_code = 409 THEN TRUE
    ELSE IF answer.status_code = 429 THEN FALSE
    ELSE FALSE

add_lead(lead_data, answer) ==
    IF add_lead_to_campaign(prepare_lead_data(lead_data), answer) THEN TRUE ELSE FALSE

\* a variant that does not count a lead whose add_lead returned False
RECURSIVE add_leads_batch_from_success_only(_, _, _)
add_leads_batch_from_success_only(leads_data, answers, counted) ==
    IF leads_data = <<>> THEN counted
    ELSE add_leads_batch_from_success_only(Tail(leads_data), Tail(answers),
             IF add_lead(Head(leads_data), Head(answers))
             THEN [counted EXCEPT !.success = counted.success + 1]
             ELSE counted)

RECURSIVE add_leads_batch_from(_, _, _)
add_leads_batch_from(leads_data, answers, counted) ==
    IF leads_data = <<>> THEN counted
    ELSE LET success == add_lead(Head(leads_data), Head(answers))
         IN  add_leads_batch_from(Tail(leads_data), Tail(answers),
                 IF success
                 THEN [counted EXCEPT !.success = counted.success + 1]
                 ELSE [counted EXCEPT !.failed = counted.failed + 1])

add_leads_batch(leads_data, answers) ==
    add_leads_batch_from(leads_data, answers,
                         [success |-> 0, failed |-> 0, duplicates |-> 0])

\* the external events of add_leads_batch, in order
RECURSIVE add_leads_batch_events(_, _)
add_leads_batch_events(leads_data, answers) ==
    IF leads_data = <<>> THEN <<>>
    ELSE <<[op |-> "heyreach", json |-> prepare_lead_data(Head(leads_data))]>>
         \o (IF "status_code" \in DOMAIN Head(answers) /\ Head(answers).status_code = 429
             THEN <<[op |-> "sleep", seconds |-> 60]>> ELSE <<>>)
         \o <<[op |-> "sleep", seconds |-> wait_time_between_requests]>>
         \o add_leads_batch_events(Tail(leads_data), Tail(answers))

\* The campaign sink itself: it holds a lead once it answered 200/201 to
\* its submission, and answers 409 only for a lead it holds.
sink_key(lead_data) == Get(prepare_lead_data(lead_data), "linkedin_url", <<>>)

RECURSIVE sink_can_answer(_, _, _)
sink_can_answer(held, leads_data, answers) ==
    IF leads_data = <<>> THEN TRUE
    ELSE LET answer == Head(answers)
             key == sink_key(Head(leads_data))
             created == "status_code" \in DOMAIN answer /\ answer.status_code \in {200, 201}
             exists == "status_code" \in DOMAIN answer /\ answer.status_code = 409
         IN  /\ exists => key \in held
             /\ created => key \notin held
             /\ sink_can_answer(IF created THEN held \cup {key} ELSE held,
                                Tail(leads_data), Tail(answers))

sink_after(held, leads_data, answers) ==
    held \cup { sink_key(leads_data[i]) :
                    i \in {j \in 1..Len(leads_data) :
                               /\ "status_code" \in DOMAIN answers[j]
                               /\ answers[j].status_code \in {200, 201}} }

-----------------------------------------------------------------------------
(* The GoogleSheetsManager exercised operation by operation.                *)

s_a == <<"a">>
s_A == <<"A">>
s_b == <<"b">>
s_B == <<"B">>
s_a_b == <<"a","_","b">>
s_b_b == <<"b","_","b">>

BaseLead == format_lead_data(clean_job(Posting(IntV(200), s_Acme_Inc, s_Jo_Do, s_a_co, s_u1)))

StoreLead(e, c) == [BaseLead EXCEPT !.email = e, !.company_name = c]

StoreLeads ==
    { StoreLead(s_a, s_b), StoreLead(s_A, s_B), StoreLead(<<>>, s_b),
      StoreLead(s_a_b, s_b), StoreLead(s_a, s_b_b),
      StoreLead(s_a, <<>>), StoreLead(<<>>, <<>>) }

StoreBatches == SeqsUpTo(StoreLeads, MaxBatch)

data_rows(sh) == Len(SelectSeq(sh, LAMBDA r : "header" \notin DOMAIN r))

InitStore ==
    /\ pc = "start"
    /\ job_data = <<>>
    /\ Idle

\* values().clear() then values().update() of the header row; an exception
\* of either call ends the method
CreateSheetWithHeaders ==
    /\ pc = "start"
    /\ \E clear_ok, update_ok \in BOOLEAN :
           sheet' = IF ~clear_ok THEN sheet
                    ELSE IF ~update_ok THEN <<>>
                    ELSE <<HeaderRow>>
    /\ pc' = "create_sheet_with_headers"
    /\ leads' = <<>> /\ unique_leads' = <<>> /\ read_ok' = TRUE
    /\ UNCHANGED <<job_data, jobs, campaign, results, run, first_run, enriched, calls, replies>>

SaveLeads ==
    /\ pc = "start"
    /\ \E ls \in StoreBatches, api_ok \in BOOLEAN :
           /\ data_rows(sheet) + Len(ls) <= MaxRows
           /\ sheet' = append_to_sheet(sheet, prepare_sheet_data(ls), api_ok)
    /\ pc' = "save_leads"
    /\ leads' = <<>> /\ unique_leads' = <<>> /\ read_ok' = TRUE
    /\ UNCHANGED <<job_data, jobs, campaign, results, run, first_run, enriched, calls, replies>>

CheckDuplicateLeads ==
    /\ pc = "start"
    /\ \E ls \in StoreBatches, api_ok \in BOOLEAN :
           /\ leads' = ls
           /\ read_ok' = api_ok
           /\ unique_leads' = check_duplicate_leads(ls, get_existing_leads(sheet, api_ok))
    /\ pc' = "check_duplicate_leads"
    /\ UNCHANGED <<job_data, jobs, sheet, campaign, results, run, first_run, enriched, calls, replies>>

\* the caller takes the result and is ready for the next call
Return ==
    /\ pc \in {"create_sheet_with_headers", "save_leads", "check_duplicate_leads"}
    /\ pc' = "start"
    /\ leads' = <<>> /\ unique_leads' = <<>> /\ read_ok' = TRUE
    /\ UNCHANGED <<job_data, jobs, sheet, campaign, results, run, first_run, enriched, calls, replies>>

NextStore ==
    \/ CreateSheetWithHeaders
    \/ SaveLeads
    \/ CheckDuplicateLeads
    \/ Return

SpecStore == InitStore /\ [][NextStore]_vars

-----------------------------------------------------------------------------
(* The enrichment stages exercised on a list of leads.                      *)

\* a posting as filter_and_clean returns it (it carries job_poster_name)
CleanedJob(c, p, w) == clean_job(Posting(IntV(200), c, p, w, s_u1))

s_https_www_b_co_x ==
    <<"h","t","t","p","s",":","/","/","w","w","w",".","b",".","c","o","/","x">>

\* a posting that already went through both stages
EnrichedJob ==
    [email |-> s_jo_at_a_co, email_confidence |-> s_unknown, email_status |-> s_VALID,
     compliment |-> s_good_text] @@ CleanedJob(s_Acme_Inc, s_Jo_Do, s_a_co)

EnrichLeads ==
    { BaseLead,
      CleanedJob(s_Acme_Inc, s_Jo_Do, s_a_co),
      CleanedJob(s_Inc, s_Jo_Do, s_https_www_b_co_x),
      CleanedJob(s_Acme_Inc, s_Jo_Do, <<>>),
      CleanedJob(<<>>, s_Jo, s_a_co),
      EnrichedJob }

EnrichBatches == SeqsUpTo(EnrichLeads, MaxBatch)

InitEnrich ==
    /\ pc = "start"
    /\ job_data = <<>>
    /\ jobs = <<>> /\ sheet = <<>> /\ unique_leads = <<>> /\ read_ok = TRUE
    /\ campaign = {} /\ results = [success |-> 0, failed |-> 0, duplicates |-> 0]
    /\ run = 0 /\ first_run = NoValue
    /\ leads \in EnrichBatches
    /\ enriched = <<>> /\ calls = <<>> /\ replies = <<>>

FindEmailsBatch ==
    /\ pc = "start"
    /\ \E answers \in [1..Len(leads) -> ProspeoAnswers] :
           /\ enriched' = find_emails_batch(leads, answers)
           /\ calls' = find_emails_batch_events(leads, answers)
           /\ replies' = [i \in 1..Len(leads) |->
                              IF find_email(leads[i], answers[i]).events # <<>>
                              THEN answers[i] ELSE NoValue]
    /\ pc' = "find_emails_batch"
    /\ UNCHANGED <<job_data, jobs, leads, sheet, unique_leads, read_ok, campaign,
                   results, run, first_run>>

GenerateComplimentsBatch ==
    /\ pc = "start"
    /\ enriched' \in generate_compliments_batch(leads)
    /\ calls' = [i \in 1..Len(leads) |-> [op |-> "openai"]]
    /\ replies' = <<>>
    /\ pc' = "generate_compliments_batch"
    /\ UNCHANGED <<job_data, jobs, leads, sheet, unique_leads, read_ok, campaign,
                   results, run, first_run>>

NextEnrich ==
    \/ FindEmailsBatch
    \/ GenerateComplimentsBatch

SpecEnrich == InitEnrich /\ [][NextEnrich]_vars

-----------------------------------------------------------------------------
(* The pipeline run: Scraping -> Normalizing -> EmailEnrichment ->          *)
(* ComplimentEnrichment -> StoreDedup -> Dispatch -> Done, and the next     *)
(* run on what the scraper returns again.  job_data is what the scraper     *)
(* returns whenever it succeeds.                                            *)

PipelinePostings ==
    { Posting(IntV(200), s_Acme_Inc, s_Jo_Do, s_a_co, s_u1),
      Posting(IntV(250), s_Inc, s_Jo_Do, s_a_co, s_u2) }

PipelineBatches == SeqsUpTo(PipelinePostings, MaxBatch)

PipelineKeys == {s_u1, s_u2}

NoResults == [success |-> 0, failed |-> 0, duplicates |-> 0]

InitPipeline ==
    /\ pc = "Scraping"
    /\ job_data \in PipelineBatches
    /\ sheet \in {<<>>, <<HeaderRow>>}
    /\ jobs = <<>> /\ leads = <<>> /\ unique_leads = <<>> /\ read_ok = TRUE
    /\ campaign = {} /\ results = NoResults
    /\ run = 0 /\ first_run = NoValue
    /\ enriched = <<>> /\ calls = <<>> /\ replies = <<>>

\* What the POST to the scraping actor can come back with: the postings, or
\* an exception (of the request, of raise_for_status, of the decoding).
ApifyAnswers == { [status_code |-> 200], [exception |-> TRUE] }

\* a variant of scrape_jobs that absorbs its failure and returns nothing
ScrapingAbsorbingFailure ==
    /\ pc = "Scraping"
    /\ \E answer \in ApifyAnswers : replies' = <<answer>>
    /\ pc' = "Normalizing"
    /\ UNCHANGED <<job_data, jobs, leads, sheet, unique_leads, read_ok, campaign,
                   results, run, first_run, enriched, calls>>

\* scrape_jobs returns the postings or raises
Scraping ==
    /\ pc = "Scraping"
    /\ \E answer \in ApifyAnswers :
           /\ replies' = <<answer>>
           /\ pc' = IF "exception" \in DOMAIN answer THEN "Failed" ELSE "Normalizing"
    /\ UNCHANGED <<job_data, jobs, leads, sheet, unique_leads, read_ok, campaign,
                   results, run, first_run, enriched, calls>>

\* filter_and_clean (which de-duplicates the batch), then format_lead_data
\* on each posting it returned
Normalizing ==
    /\ pc = "Normalizing"
    /\ jobs' = filter_and_clean(job_data)
    /\ leads' = [i \in 1..Len(filter_and_clean(job_data)) |->
                     format_lead_data(filter_and_clean(job_data)[i])]
    /\ pc' = "EmailEnrichment"
    /\ UNCHANGED <<job_data, sheet, unique_leads, read_ok, campaign,
                   results, run, first_run, enriched, calls, replies>>

EmailEnrichment ==
    /\ pc = "EmailEnrichment"
    /\ \E answers \in [1..Len(leads) -> ProspeoAnswers] :
           leads' = find_emails_batch(leads, answers)
    /\ pc' = "ComplimentEnrichment"
    /\ UNCHANGED <<job_data, jobs, sheet, unique_leads, read_ok, campaign,
                   results, run, first_run, enriched, calls, replies>>

ComplimentEnrichment ==
    /\ pc = "ComplimentEnrichment"
    /\ leads' \in generate_compliments_batch(leads)
    /\ pc' = "StoreDedup"
    /\ UNCHANGED <<job_data, jobs, sheet, unique_leads, read_ok, campaign,
                   results, run, first_run, enriched, calls, replies>>

StoreDedup ==
    /\ pc = "StoreDedup"
    /\ \E api_ok \in BOOLEAN :
           /\ read_ok' = api_ok
           /\ unique_leads' = check_duplicate_leads(leads, get_existing_leads(sheet, api_ok))
    /\ pc' = "Dispatch"
    /\ UNCHANGED <<job_data, jobs, leads, sheet, campaign,
                   results, run, first_run, enriched, calls, replies>>

\* save_leads of the surviving leads; a sheet that is full rejects the append
DispatchStore ==
    /\ pc = "Dispatch"
    /\ \E api_ok \in BOOLEAN :
           /\ api_ok => data_rows(sheet) + Len(unique_leads) <= MaxRows
           /\ sheet' = append_to_sheet(sheet, prepare_sheet_data(unique_leads), api_ok)
           /\ first_run' = IF run = 0 THEN [saved |-> api_ok] ELSE first_run
    /\ run' = IF run < MaxRuns THEN run + 1 ELSE run
    /\ pc' = "DispatchCampaign"
    /\ UNCHANGED <<job_data, jobs, leads, unique_leads, read_ok, campaign,
                   results, enriched, calls, replies>>

\* add_leads_batch of the surviving leads
DispatchCampaign ==
    /\ pc = "DispatchCampaign"
    /\ \E answers \in [1..Len(unique_leads) -> HeyReachAnswers] :
           /\ sink_can_answer(campaign, unique_leads, answers)
           /\ results' = add_leads_batch(unique_leads, answers)
           /\ campaign' = sink_after(campaign, unique_leads, answers)
    /\ pc' = "Done"
    /\ UNCHANGED <<job_data, jobs, leads, sheet, unique_leads, read_ok,
                   run, first_run, enriched, calls, replies>>

\* the next run starts from scratch against the same store and campaign
Rerun ==
    /\ pc \in {"Done", "Failed"}
    /\ pc' = "Scraping"
    /\ jobs' = <<>> /\ leads' = <<>> /\ unique_leads' = <<>> /\ read_ok' = TRUE
    /\ results' = NoResults
    /\ UNCHANGED <<job_data, sheet, campaign, run, first_run, enriched, calls, replies>>

Next ==
    \/ Scraping
    \/ Normalizing
    \/ EmailEnrichment
    \/ ComplimentEnrichment
    \/ StoreDedup
    \/ DispatchStore
    \/ DispatchCampaign
    \/ Rerun

Spec == InitPipeline /\ [][Next]_vars

\* the campaign sink takes the lead `key` into the campaign
Accepts(key) == DispatchCampaign /\ key \notin campaign /\ key \in campaign'

\* the scraper returns one posting
InitOnePosting == InitPipeline /\ Len(job_data) = 1

\* Every stage of a run completes and runs keep being started (some action
\* of Next is enabled in every state, so that is: steps keep being taken);
\* a scrape, a read of the store and the submission of a lead that are
\* attempted again and again eventually succeed.
FairSpec ==
    /\ InitOnePosting /\ [][Next]_vars
    /\ []<><<Next>>_vars
    /\ SF_vars(Scraping /\ pc' = "Normalizing")
    /\ SF_vars(StoreDedup /\ read_ok')
    /\ \A key \in PipelineKeys : SF_vars(Accepts(key))

-----------------------------------------------------------------------------
(* Properties of the DataProcessor (checked under SpecNormalizer).          *)

\* the k-th smallest index of K
nth_index(K, k) == CHOOSE i \in K : Cardinality({j \in K : j <= i}) = k

\* out lists exactly the elements of inp at the indexes K, in input order
IsSelection(out, inp, K) ==
    /\ Len(out) = Cardinality(K)
    /\ \A k \in 1..Len(out) : out[k] = inp[nth_index(K, k)]

RECURSIVE Pow10(_)
Pow10(n) == IF n = 0 THEN 1 ELSE 10 * Pow10(n - 1)

RECURSIVE SumOver(_, _, _)
SumOver(s, b, e) ==
    IF b > e THEN 0
    ELSE DigitVal(s[b]) * Pow10(e - b) + SumOver(s, b + 1, e)

\* s[b..e] is the first maximal run of digits of s
IsFirstDigitRun(s, b, e) ==
    /\ b <= e
    /\ \A i \in b..e : IsDigit(s[i])
    /\ \A i \in 1..(b-1) : ~IsDigit(s[i])
    /\ (e = Len(s) \/ ~IsDigit(s[e+1]))

\* the posting's extracted employee count exists and reaches the threshold
CountReachesThreshold(job) ==
    LET v == Get(job, "employee_count", NoValue)
    IN  \/ v.k = "int" /\ v.n >= min_employee_count
        \/ /\ v.k = "str"
           /\ \E b \in 1..Len(v.s) : \E e \in b..Len(v.s) :
                  IsFirstDigitRun(v.s, b, e) /\ SumOver(v.s, b, e) >= min_employee_count

\* C1: _filter_by_employee_count returns, in input order, exactly the
\* postings whose employee count (the number itself, or the first maximal
\* run of digits of a str) is >= min_employee_count; a count equal to the
\* threshold is kept, a missing count or a str without a digit is dropped.
C1_ThresholdFilter ==
    pc = "filter_by_employee_count" =>
        IsSelection(jobs, job_data,
                    {i \in 1..Len(job_data) : CountReachesThreshold(job_data[i])})

C1_Witness ==
    /\ pc = "filter_by_employee_count"
    /\ \E i \in 1..Len(job_data) :
           /\ Get(job_data[i], "employee_count", NoValue) = StrV(<<"2","0","0">>)
           /\ \E k \in 1..Len(jobs) : jobs[k] = job_data[i]
    /\ \E i \in 1..Len(job_data) :
           /\ Get(job_data[i], "employee_count", NoValue) = StrV(<<"e">>)
           /\ \A k \in 1..Len(jobs) : jobs[k] # job_data[i]

\* C2: every Lead produced by filter_and_clean followed by format_lead_data
\* carries an employee_count that is a non-negative integer or is absent
\* (the empty value), never a free-text str.
C2_EmployeeCountIsInteger ==
    pc = "format_lead_data" =>
        \A i \in 1..Len(leads) :
            \/ leads[i].employee_count.k = "int" /\ leads[i].employee_count.n >= 0
            \/ leads[i].employee_count = StrV(<<>>)

\* C3: every Lead that leaves filter_and_clean followed by format_lead_data
\* has a non-empty company_name (the cleaned one), full_name and
\* company_website, and of the postings that reach validation exactly those
\* with one of the three empty after normalisation are rejected.
C3_RequiredFieldsNonEmpty ==
    pc = "format_lead_data" =>
        /\ \A i \in 1..Len(leads) :
               /\ leads[i].company_name # <<>>
               /\ leads[i].full_name # <<>>
               /\ leads[i].company_website # <<>>
        /\ LET reach == remove_duplicates(filter_by_employee_count(job_data))
           IN  Len(leads) = Cardinality(
                   {i \in 1..Len(reach) :
                        /\ clean_company_name(Get(reach[i], "company_name", <<>>)) # <<>>
                        /\ Get(reach[i], "job_poster_name", <<>>) # <<>>
                        /\ Get(reach[i], "company_website", <<>>) # <<>>})

\* C4: _remove_duplicates keeps, in input order, exactly the first posting
\* of every non-empty company_linkedin_url, whatever the other fields are,
\* and drops the postings whose company_linkedin_url is empty or missing.
C4_FirstOccurrenceWins ==
    pc = "remove_duplicates" =>
        IsSelection(jobs, job_data,
                    {i \in 1..Len(job_data) :
                         /\ Get(job_data[i], "company_linkedin_url", <<>>) # <<>>
                         /\ \A j \in 1..(i-1) :
                                Get(job_data[j], "company_linkedin_url", <<>>)
                                    # Get(job_data[i], "company_linkedin_url", <<>>)})

C4_Witness ==
    /\ pc = "remove_duplicates"
    /\ Len(job_data) = 2
    /\ job_data[1].company_linkedin_url = s_u1
    /\ job_data[2].company_linkedin_url = s_u1
    /\ job_data[1] # job_data[2]
    /\ jobs = <<job_data[1]>>

-----------------------------------------------------------------------------
(* Properties of check_duplicate_leads (checked under SpecStore).           *)

\* what get_existing_leads returned to the check_duplicate_leads that ran
ExistingLeads == get_existing_leads(sheet, read_ok)

Appears(lead, out) == \E k \in 1..Len(out) : out[k] = lead

HasBoth(l) == l.email # <<>> /\ l.company_name # <<>>

SamePair(x, y) ==
    lower(x.email) = lower(y.email) /\ lower(x.company_name) = lower(y.company_name)

\* the composite identity key: email_lowercase + "_" + company_lowercase
CompositeKey(l) == lower(l.email) \o <<"_">> \o lower(l.company_name)

SameIdentity(x, y) ==
    \/ /\ x.email # <<>> /\ y.email # <<>>
       /\ SamePair(x, y)
    \/ /\ x.email = <<>> /\ y.email = <<>>
       /\ lower(x.company_name) = lower(y.company_name)

\* C6: whatever the persisted store holds (an empty store included), the
\* output of check_duplicate_leads never holds two leads with the same
\* identity key (same lower-cased email and company, or same company and
\* no email): only the first of them survives.
C6_NoTwoLeadsOfOneIdentity ==
    pc = "check_duplicate_leads" =>
        \A i, j \in 1..Len(unique_leads) :
            i < j => ~SameIdentity(unique_leads[i], unique_leads[j])

\* C9: when the read of the persisted store fails, or yields no entry,
\* check_duplicate_leads returns the incoming leads unchanged and in order.
C9_DegradesToNoSuppression ==
    (pc = "check_duplicate_leads"
        /\ (~read_ok \/ get_existing_leads(sheet, TRUE) = <<>>))
        => unique_leads = leads

C9_Witness ==
    /\ pc = "check_duplicate_leads"
    /\ ~read_ok
    /\ sheet = <<HeaderRow, sheet_row(StoreLead(s_a, s_b))>>
    /\ leads = <<StoreLead(s_a, s_b), StoreLead(<<>>, s_b)>>
    /\ unique_leads = leads

-----------------------------------------------------------------------------
(* Properties of the enrichment stages (checked under SpecEnrich).          *)

EmailFields == {"email", "email_confidence", "email_status"}

ComplimentFields == {"compliment"}

\* out is the lead inp with the fields of `fields` set and nothing else touched
SameLeadWith(out, inp, fields) ==
    /\ DOMAIN out = DOMAIN inp \cup fields
    /\ \A key \in DOMAIN inp \ fields : out[key] = inp[key]

SameLeadsWith(out, inp, fields) ==
    /\ Len(out) = Len(inp)
    /\ \A i \in 1..Len(inp) : SameLeadWith(out[i], inp[i], fields)

\* C10: whatever the Prospeo and OpenAI calls answer for each lead (an
\* email, nothing found, a rate limit, an HTTP error, an exception),
\* find_emails_batch and generate_compliments_batch return a list of the
\* same length as their input whose i-th element is the i-th input lead
\* with only its enrichment fields set.
C10_EnrichmentReturnsEveryLead ==
    /\ pc = "find_emails_batch" => SameLeadsWith(enriched, leads, EmailFields)
    /\ pc = "generate_compliments_batch" => SameLeadsWith(enriched, leads, ComplimentFields)

\* a two-lead batch whose first lead was rate limited and got no email and
\* whose second lead got one
C10_Witness ==
    /\ pc = "find_emails_batch"
    /\ Len(leads) = 2 /\ leads[1] # leads[2]
    /\ \E n \in 1..Len(calls) : calls[n] = [op |-> "sleep", seconds |-> 60]
    /\ enriched[1].email_status = s_not_found
    /\ enriched[2].email = s_jo_at_a_co

-----------------------------------------------------------------------------
(* Properties of the pipeline run (checked under Spec and FairSpec).        *)

\* C7: when the first run that dispatched had its leads saved by save_leads
\* and the next run, on the same postings, reads the store successfully,
\* check_duplicate_leads returns no lead in that run, so nothing is
\* dispatched.
C7_SecondRunDispatchesNothing ==
    (/\ pc = "Dispatch" /\ run = 1
     /\ first_run = [saved |-> TRUE]
     /\ read_ok)
        => unique_leads = <<>>

\* the lead `key` came out of check_duplicate_leads and is about to be dispatched
Survives(key) ==
    /\ pc = "Dispatch"
    /\ \E i \in 1..Len(unique_leads) : unique_leads[i].company_linkedin_url = key

\* C8: every lead that survives normalisation and de-duplication in some
\* run is eventually held by the campaign sink, in that run or a later one.
C8_AtLeastOnceSubmission ==
    \A key \in PipelineKeys : Survives(key) ~> (key \in campaign)

-----------------------------------------------------------------------------
(* Properties of the email stage (checked under SpecEnrich).                *)

s_not_attempted == <<"n","o","t","_","a","t","t","e","m","p","t","e","d">>
s_found == <<"f","o","u","n","d">>
s_rate_limited == <<"r","a","t","e","_","l","i","m","i","t","e","d">>
s_error == <<"e","r","r","o","r">>

EmailStatuses == {s_not_attempted, s_found, s_not_found, s_rate_limited, s_error}

\* the status variant that corresponds to what happened for a lead
ExpectedEmailStatus(lead, reply) ==
    IF lead.email # <<>> THEN s_found
    ELSE IF "status_code" \in DOMAIN reply /\ reply.status_code = 429 THEN s_rate_limited
    ELSE IF "exception" \in DOMAIN reply THEN s_error
    ELSE IF "status_code" \in DOMAIN reply /\ reply.status_code # 200 THEN s_error
    ELSE s_not_found

\* C11: after find_emails_batch every lead's email_status is one of
\* not_attempted, found, not_found, rate_limited, error, it is the variant of
\* what the lookup answered for that lead (found with an email set,
\* rate_limited after a 429, error after an HTTP error or an exception,
\* not_found otherwise), and the email is empty unless it is found.
C11_EmailStatusReflectsOutcome ==
    pc = "find_emails_batch" =>
        \A i \in 1..Len(enriched) :
            /\ enriched[i].email_status \in EmailStatuses
            /\ enriched[i].email_status = ExpectedEmailStatus(enriched[i], replies[i])
            /\ enriched[i].email_status # s_found => enriched[i].email = <<>>

\* the wait between two leads
pacing_sleep == [op |-> "sleep", seconds |-> wait_time_between_requests]

PacingIndexes(trace) == {n \in 1..Len(trace) : trace[n] = pacing_sleep}

\* the events of the i-th lead: those after the wait of lead i-1, up to its own wait
SegmentOf(trace, i) ==
    LET b == IF i = 1 THEN 0 ELSE nth_index(PacingIndexes(trace), i - 1)
        e == nth_index(PacingIndexes(trace), i)
    IN  SubSeq(trace, b + 1, e - 1)

LookupCalled(trace, i) ==
    \E n \in 1..Len(SegmentOf(trace, i)) : SegmentOf(trace, i)[n].op = "prospeo"

\* the poster's name a record carries: job_poster_name on a posting,
\* full_name on a Lead
PosterName(lead) ==
    IF "job_poster_name" \in DOMAIN lead THEN lead.job_poster_name
    ELSE Get(lead, "full_name", <<>>)

\* number of whitespace-separated tokens of s
TokenCount(s) ==
    Cardinality({n \in 1..Len(s) : ~IsSpace(s[n]) /\ (n = 1 \/ IsSpace(s[n-1]))})

MayLookUp(lead) ==
    /\ TokenCount(PosterName(lead)) >= 2
    /\ Get(lead, "company_website", <<>>) # <<>>

\* C12: find_emails_batch calls the email lookup for a lead only if the
\* poster's name has at least two whitespace-separated tokens and the
\* company website is non-empty; a lead for which that is not so gets
\* email_status not_found and an empty email, and no call is made for it.
C12_LookupOnlyWithNameAndWebsite ==
    pc = "find_emails_batch" =>
        /\ Cardinality(PacingIndexes(calls)) = Len(leads)
        /\ \A i \in 1..Len(leads) :
               /\ LookupCalled(calls, i) => MayLookUp(leads[i])
               /\ ~MayLookUp(leads[i]) =>
                      /\ ~LookupCalled(calls, i)
                      /\ enriched[i].email_status = s_not_found
                      /\ enriched[i].email = <<>>

\* the lookup was called for the first lead, and the second lead, whose
\* poster has two names but whose website is empty, was short-circuited
C12_Witness ==
    /\ pc = "find_emails_batch"
    /\ Len(leads) = 2
    /\ LookupCalled(calls, 1)
    /\ TokenCount(PosterName(leads[2])) >= 2
    /\ Get(leads[2], "company_website", <<>>) = <<>>
    /\ ~LookupCalled(calls, 2)
    /\ enriched[2].email_status = s_not_found

\* ---------------------------------------------------------------------
\* Properties of the pacing of external calls

ExternalOps == {"prospeo", "openai", "heyreach", "append"}

\* between any two successive external calls of the trace there is a wait
Paced(trace) ==
    \A m, n \in 1..Len(trace) :
        (m < n /\ trace[m].op \in ExternalOps /\ trace[n].op \in ExternalOps)
            => \E k \in (m+1)..(n-1) : trace[k] = pacing_sleep

\* C13: the email stage and the compliment stage wait
\* wait_time_between_requests after each external call, so no two
\* successive external calls of a stage happen without a wait between them.
C13_PacedExternalCalls ==
    pc \in {"find_emails_batch", "generate_compliments_batch"} => Paced(calls)

-----------------------------------------------------------------------------
(* One lead through generate_compliment, twice                              *)

\* a text of n letters
Filler(n) == [i \in 1..n |-> "a"]

s_REFUSAL_TEXT == <<"I"," ","C","A","N","N","O","T"," ","H","E","L","P"," ","W","I","T",
          "H"," ","T","H","I","S"," ","R","E","Q","U","E","S","T",".">>

\* completion texts around every bound of _validate_compliment
ComplimentTexts ==
    { s_good_text, s_refusal_text, s_REFUSAL_TEXT,
      <<" ", " ">> \o s_good_text \o <<" ">>,
      <<" ", " ", " ">>,
      Filler(19), Filler(20), Filler(300), Filler(301),
      <<" ">> \o Filler(300) \o <<" ">>,
      Filler(20) \o <<"!", "!">>, Filler(20) \o <<"!", "!", "!">>,
      Filler(20) \o <<"?">>, Filler(20) \o <<"?", "?">> }

ComplimentAnswers ==
    OpenAIAnswers \cup { [content |-> text] : text \in ComplimentTexts }

\* company names: none, short, of 49 and of 50 characters
ComplimentCompanyNames == { <<>>, s_Acme, Filler(49), Filler(50) }

InitCompliment ==
    /\ pc = "start"
    /\ job_data = <<>>
    /\ jobs = <<>> /\ sheet = <<>> /\ unique_leads = <<>> /\ read_ok = TRUE
    /\ campaign = {} /\ results = NoResults /\ run = 0 /\ first_run = NoValue
    /\ \E company_name \in ComplimentCompanyNames :
           leads = <<[company_name |-> company_name]>>
    /\ enriched = <<>> /\ calls = <<>> /\ replies = <<>>

\* generate_compliment on the lead: the OpenAI call answers `answer`
GenerateCompliment ==
    /\ pc = "start"
    /\ \E answer \in ComplimentAnswers, choice \in 1..Len(fallback_compliments) :
           /\ enriched' = <<compliment_enriched(leads[1], answer, choice)>>
           /\ replies' = <<answer>>
    /\ calls' = <<[op |-> "openai"]>>
    /\ pc' = "generate_compliment"
    /\ UNCHANGED <<job_data, jobs, leads, sheet, unique_leads, read_ok, campaign,
                   results, run, first_run>>

\* a second generate_compliment on the same lead, the call answering the same
GenerateComplimentAgain ==
    /\ pc = "generate_compliment"
    /\ \E choice \in 1..Len(fallback_compliments) :
           enriched' = Append(enriched, compliment_enriched(leads[1], replies[1], choice))
    /\ calls' = Append(calls, [op |-> "openai"])
    /\ pc' = "generate_compliment_again"
    /\ UNCHANGED <<job_data, jobs, leads, sheet, unique_leads, read_ok, campaign,
                   results, run, first_run, replies>>

NextCompliment ==
    \/ GenerateCompliment
    \/ GenerateComplimentAgain

SpecCompliment == InitCompliment /\ [][NextCompliment]_vars

\* ---------------------------------------------------------------------
\* Properties of the compliment stage

\* the text the collaborator generated, surrounding whitespace removed
GeneratedText(reply) ==
    IF "content" \in DOMAIN reply THEN strip(reply.content) ELSE <<>>

Acceptable(text) ==
    /\ Len(text) >= 20 /\ Len(text) <= 300
    /\ \A n \in 1..Len(invalid_phrases) :
           ~contains(lower(text), lower(invalid_phrases[n]))
    /\ count_char(text, "!") <= 2
    /\ count_char(text, "?") <= 1

\* the positions of template at which "your company" or "Your company" starts
MarkerPositions(template) ==
    {i \in 1..(Len(template) - Len(s_your_company) + 1) :
         SubSeq(template, i, i + Len(s_your_company) - 1)
             \in {s_your_company, s_Your_company}}

\* template with its marker, if it has one, replaced by name when name is
\* non-empty and shorter than 50 characters; template itself otherwise
Personalised(template, name) ==
    IF name = <<>> \/ Len(name) >= 50 \/ MarkerPositions(template) = {} THEN template
    ELSE LET i == CHOOSE j \in MarkerPositions(template) : TRUE
         IN  SubSeq(template, 1, i - 1) \o name
                 \o SubSeq(template, i + Len(s_your_company), Len(template))

IsFallbackFor(text, name) ==
    \E n \in 1..Len(fallback_compliments) :
        /\ Cardinality(MarkerPositions(fallback_compliments[n])) <= 1
        /\ text = Personalised(fallback_compliments[n], name)

\* C14: generate_compliment returns the generated text exactly when the
\* call answered a text that is acceptable (20 to 300 characters inclusive,
\* no refusal phrase in any letter case, at most two '!' and one '?');
\* otherwise it returns one of the fallback templates, with "your company" /
\* "Your company" replaced by the company name exactly when that name is
\* non-empty and shorter than 50 characters. The result is never empty.
C14_GeneratedTextOrFallback ==
    pc = "generate_compliment" =>
        LET name == leads[1].company_name
            text == GeneratedText(replies[1])
            result == enriched[1].compliment
        IN  /\ result # <<>>
            /\ IF Acceptable(text) THEN result = text
               ELSE IsFallbackFor(result, name)
            /\ result = text => Acceptable(text)

\* a refusal in capital letters was answered for a company whose name has 49
\* characters, and the result is a template carrying that name
C14_Witness ==
    /\ pc = "generate_compliment"
    /\ replies[1] = [content |-> s_REFUSAL_TEXT]
    /\ Len(leads[1].company_name) = 49
    /\ contains(enriched[1].compliment, leads[1].company_name)
    /\ IsFallbackFor(enriched[1].compliment, leads[1].company_name)

\* C15: two invocations of generate_compliment on the same lead, the
\* collaborator failing in the same way both times, return the same
\* fallback compliment.
C15_SameFallbackTwice ==
    (pc = "generate_compliment_again" /\ ~Acceptable(GeneratedText(replies[1])))
        => enriched[1].compliment = enriched[2].compliment

s_fallback == <<"f","a","l","l","b","a","c","k">>
s_ai_generated == <<"a","i","_","g","e","n","e","r","a","t","e","d">>

\* the texts the collaborator can have generated
GeneratedTexts ==
    {GeneratedText(answer) : answer \in {a \in OpenAIAnswers : "content" \in DOMAIN a}}

\* C16: a failure absorbed by the compliment stage is reflected in the
\* record: after generate_compliments_batch every lead carries
\* compliment_status, fallback when its compliment came from the fallback
\* path and ai_generated when it is the generated text.
C16_ComplimentStatusFlag ==
    pc = "generate_compliments_batch" =>
        \A i \in 1..Len(enriched) :
            /\ "compliment_status" \in DOMAIN enriched[i]
            /\ enriched[i].compliment_status =
                   IF enriched[i].compliment \in GeneratedTexts
                   THEN s_ai_generated ELSE s_fallback

-----------------------------------------------------------------------------
(* The two sinks exercised on a batch of leads                              *)

\* a lead none of whose custom-field sources has a value
BareLead == [first_name |-> s_Jo, email |-> s_a, company_linkedin_url |-> s_u2]

SinkLeads == { BaseLead, StoreLead(s_a, s_b), StoreLead(<<>>, s_B), BareLead }

SinkBatches == SeqsUpTo(SinkLeads, MaxBatch)

InitSink ==
    /\ pc = "start"
    /\ job_data = <<>>
    /\ jobs = <<>> /\ unique_leads = <<>> /\ read_ok = TRUE
    /\ sheet \in {<<>>, <<HeaderRow>>}
    /\ campaign = {} /\ results = NoResults /\ run = 0 /\ first_run = NoValue
    /\ leads \in SinkBatches
    /\ enriched = <<>> /\ calls = <<>> /\ replies = <<>>

\* add_leads_batch(leads): the POST of lead i comes back with answers[i]
SinkAddLeadsBatch ==
    /\ pc = "start"
    /\ \E answers \in [1..Len(leads) -> HeyReachAnswers] :
           /\ results' = add_leads_batch(leads, answers)
           /\ calls' = add_leads_batch_events(leads, answers)
           /\ replies' = answers
    /\ pc' = "add_leads_batch"
    /\ UNCHANGED <<job_data, jobs, leads, sheet, unique_leads, read_ok, campaign,
                   run, first_run, enriched>>

\* save_leads(leads): the append request succeeds or raises
SinkSaveLeads ==
    /\ pc = "start"
    /\ \E api_ok \in BOOLEAN :
           /\ api_ok => data_rows(sheet) + Len(leads) <= MaxRows
           /\ sheet' = append_to_sheet(sheet, prepare_sheet_data(leads), api_ok)
           /\ replies' = <<IF api_ok THEN [status_code |-> 200] ELSE [exception |-> TRUE]>>
    /\ calls' = save_leads_events(leads)
    /\ pc' = "save_leads"
    /\ UNCHANGED <<job_data, jobs, leads, unique_leads, read_ok, campaign,
                   results, run, first_run, enriched>>

NextSink ==
    \/ SinkAddLeadsBatch
    \/ SinkSaveLeads

SpecSink == InitSink /\ [][NextSink]_vars

\* ---------------------------------------------------------------------
\* Properties of the sink dispatcher

HasStatus(reply, codes) ==
    "status_code" \in DOMAIN reply /\ reply.status_code \in codes

\* C17: an AlreadyExists answer (409) counts as a success exactly as
\* Created (200, 201) does: add_lead is True for it and add_leads_batch
\* counts the lead under success; a lead answered 429, another status or
\* an exception is counted under failed.
C17_ConflictCountsAsSuccess ==
    pc = "add_leads_batch" =>
        /\ results.success =
               Cardinality({i \in 1..Len(leads) : HasStatus(replies[i], {200, 201, 409})})
        /\ results.failed =
               Cardinality({i \in 1..Len(leads) : ~HasStatus(replies[i], {200, 201, 409})})
        /\ \A i \in 1..Len(leads) :
               HasStatus(replies[i], {409}) => add_lead(leads[i], replies[i])

\* two leads, the first answered 409 and the second 500
C17_Witness ==
    /\ pc = "add_leads_batch"
    /\ Len(leads) = 2
    /\ replies = <<[status_code |-> 409], [status_code |-> 500]>>
    /\ results.success = 1
    /\ results.failed = 1

\* C18: add_leads_batch returns a summary for every sequence of answers of
\* the sink, and every input lead is counted exactly once in it:
\* success + failed is the number of input leads.
C18_EveryLeadCountedOnce ==
    pc = "add_leads_batch" =>
        /\ DOMAIN results = {"success", "failed", "duplicates"}
        /\ results.success + results.failed = Len(leads)
        /\ results.duplicates = 0

\* two leads whose requests both raised, both counted
C18_Witness ==
    /\ pc = "add_leads_batch"
    /\ Len(leads) = 2
    /\ \A i \in 1..2 : "exception" \in DOMAIN replies[i]
    /\ results.failed = 2
    /\ results.success = 0

\* the requests of the trace to one sink
RequestsTo(trace, op) == SelectSeq(trace, LAMBDA e : e.op = op)

\* C19: each lead is dispatched on its own to each sink, once and in input
\* order: the campaign sink receives one submission per lead, and the
\* durable-record sink one request per lead, so that a failed request
\* concerns one lead only.
C19_EachLeadDispatchedOnItsOwn ==
    /\ pc = "add_leads_batch" =>
           RequestsTo(calls, "heyreach")
               = [i \in 1..Len(leads) |->
                      [op |-> "heyreach", json |-> prepare_lead_data(leads[i])]]
    /\ (pc = "save_leads" /\ leads # <<>>) =>
           RequestsTo(calls, "append")
               = [i \in 1..Len(leads) |->
                      [op |-> "append", rows |-> <<sheet_row(leads[i])>>]]

\* ---------------------------------------------------------------------
\* Properties of a run

ScrapeFailed(reply) == reply # <<>> /\ "exception" \in DOMAIN reply[1]

-----------------------------------------------------------------------------
(* The text functions exercised on names, company names and URLs            *)

s_Mary_Jane_Watson == <<"M","a","r","y"," ","J","a","n","e"," ","W","a","t","s","o","n">>
s_Mary == <<"M","a","r","y">>
s_Jane_Watson == <<"J","a","n","e"," ","W","a","t","s","o","n">>

NameTexts ==
    { <<>>, <<" ">>, s_Jo, <<" ">> \o s_Jo \o <<" ">>, s_Jo_Do,
      s_Jo \o <<" ", " ">> \o <<"D","o">>,
      s_Jo \o <<"\t">> \o <<"D","o">> \o <<" ">> \o <<"R","e">>,
      s_Mary_Jane_Watson }

s_Acme_Corp_Inc == <<"A","c","m","e"," ","C","o","r","p",","," ","I","n","c",".">>
s_Corp == <<"C","o","r","p">>
s_Solutions == <<"S","o","l","u","t","i","o","n","s">>
s_Acme_Solutions == s_Acme \o <<" ">> \o s_Solutions

CompanyTexts ==
    { <<>>, s_Acme, s_Inc, s_Acme_Inc, s_Acme_Corp_Inc, s_Acme_Solutions_Inc,
      <<"a","c","m","e"," ","I","N","C">>,
      <<"I","n","c","u","b","a","t","o","r"," ","C","o">>,
      s_Acme \o <<" ", " ">> \o s_Corp \o <<" ", "\t", " ">> \o s_Inc,
      s_Acme_Inc \o <<",">>,
      <<" ">> \o s_Acme \o <<" ","L","t","d"," ">>,
      <<"C","o","-","O","p"," ","G","r","o","u","p">>,
      s_Acme \o <<",", " ">> \o s_Inc \o <<".", ",", " ">> \o <<"C","o">> }

s_acme_com == <<"a","c","m","e",".","c","o","m">>

UrlTexts ==
    { <<>>, s_a_co, s_http \o s_a_co, s_https_www_acme_com_careers,
      s_www \o s_a_co \o <<"/","x">>,
      s_https \o <<"a">> \o s_www \o <<"b",".","c","o">>,
      s_a_co \o <<"/">> \o s_http \o <<"b">>,
      <<"b",".">> \o s_http \o s_a_co }

InitText ==
    /\ pc = "start"
    /\ job_data = <<>>
    /\ jobs = <<>> /\ sheet = <<>> /\ unique_leads = <<>> /\ read_ok = TRUE
    /\ campaign = {} /\ results = NoResults /\ run = 0 /\ first_run = NoValue
    /\ \E full_name \in NameTexts, company_name \in CompanyTexts, url \in UrlTexts :
           leads = <<[full_name |-> full_name, company_name |-> company_name,
                      company_website |-> url]>>
    /\ enriched = <<>> /\ calls = <<>> /\ replies = <<>>

ExtractNameParts ==
    /\ pc = "start"
    /\ enriched' = <<extract_name_parts(leads[1].full_name)>>
    /\ pc' = "extract_name_parts"
    /\ UNCHANGED <<job_data, jobs, leads, sheet, unique_leads, read_ok, campaign,
                   results, run, first_run, calls, replies>>

CleanCompanyName ==
    /\ pc = "start"
    /\ enriched' = <<[company_name |-> clean_company_name(leads[1].company_name)]>>
    /\ pc' = "clean_company_name"
    /\ UNCHANGED <<job_data, jobs, leads, sheet, unique_leads, read_ok, campaign,
                   results, run, first_run, calls, replies>>

\* _clean_company_name on the name it returned
CleanCompanyNameAgain ==
    /\ pc = "clean_company_name"
    /\ enriched' = Append(enriched,
                          [company_name |-> clean_company_name(enriched[1].company_name)])
    /\ pc' = "clean_company_name_again"
    /\ UNCHANGED <<job_data, jobs, leads, sheet, unique_leads, read_ok, campaign,
                   results, run, first_run, calls, replies>>

ExtractDomainFromUrl ==
    /\ pc = "start"
    /\ enriched' = <<[domain |-> extract_domain_from_url(leads[1].company_website)]>>
    /\ pc' = "extract_domain_from_url"
    /\ UNCHANGED <<job_data, jobs, leads, sheet, unique_leads, read_ok, campaign,
                   results, run, first_run, calls, replies>>

\* EmailFinder._extract_domain on the same URL
ExtractDomain ==
    /\ pc = "extract_domain_from_url"
    /\ enriched' = Append(enriched,
                          [domain |-> finder_extract_domain(leads[1].company_website)])
    /\ pc' = "extract_domain"
    /\ UNCHANGED <<job_data, jobs, leads, sheet, unique_leads, read_ok, campaign,
                   results, run, first_run, calls, replies>>

NextText ==
    \/ ExtractNameParts
    \/ CleanCompanyName
    \/ CleanCompanyNameAgain
    \/ ExtractDomainFromUrl
    \/ ExtractDomain

SpecText == InitText /\ [][NextText]_vars

\* ---------------------------------------------------------------------
\* Properties of the text functions

\* the positions at which a whitespace-separated token of s starts
TokenStarts(s) == {n \in 1..Len(s) : ~IsSpace(s[n]) /\ (n = 1 \/ IsSpace(s[n-1]))}

\* the k-th token of s
Token(s, k) ==
    LET b == nth_index(TokenStarts(s), k)
        e == CHOOSE i \in b..Len(s) :
                 /\ \A j \in b..i : ~IsSpace(s[j])
                 /\ (i = Len(s) \/ IsSpace(s[i+1]))
    IN  SubSeq(s, b, e)

\* the tokens k..n of s, one space between two of them
RECURSIVE TokensJoined(_, _, _)
TokensJoined(s, k, n) ==
    IF k > n THEN <<>>
    ELSE IF k = n THEN Token(s, k)
    ELSE Token(s, k) \o <<" ">> \o TokensJoined(s, k + 1, n)

\* C21: extract_name_parts splits the full name on whitespace: no token
\* gives an empty first and last name, one token gives it as first name and
\* an empty last name, two or more give the first token as first name and
\* the remaining tokens joined by a single space as last name
\* ("Mary Jane Watson" gives "Mary" and "Jane Watson").
C21_NameSplitting ==
    pc = "extract_name_parts" =>
        LET full_name == leads[1].full_name
            n == TokenCount(full_name)
            parts == enriched[1]
        IN  /\ DOMAIN parts = {"first_name", "last_name"}
            /\ n = 0 => (parts.first_name = <<>> /\ parts.last_name = <<>>)
            /\ n = 1 => (parts.first_name = Token(full_name, 1) /\ parts.last_name = <<>>)
            /\ n >= 2 => /\ parts.first_name = Token(full_name, 1)
                         /\ parts.last_name = TokensJoined(full_name, 2, n)
            /\ full_name = s_Mary_Jane_Watson =>
                   (parts.first_name = s_Mary /\ parts.last_name = s_Jane_Watson)

\* a name of three tokens, one of them after a tab, was split
C21_Witness ==
    /\ pc = "extract_name_parts"
    /\ TokenCount(leads[1].full_name) = 3
    /\ \E i \in 1..Len(leads[1].full_name) : leads[1].full_name[i] = "\t"
    /\ enriched[1].first_name = s_Jo
    /\ enriched[1].last_name = <<"D","o"," ","R","e">>

\* some suffix of the vocabulary is a whole word of s, in any letter case
HasSuffixWord(s) ==
    \E n \in 1..Len(company_suffixes), i \in 1..Len(s) :
        /\ i + Len(company_suffixes[n]) - 1 <= Len(s)
        /\ lower(SubSeq(s, i, i + Len(company_suffixes[n]) - 1)) = lower(company_suffixes[n])
        /\ (i = 1 \/ ~IsWordChar(s[i-1]))
        /\ (i + Len(company_suffixes[n]) > Len(s) \/ ~IsWordChar(s[i + Len(company_suffixes[n])]))

WhitespaceCollapsed(s) ==
    /\ \A i \in 1..Len(s) : IsSpace(s[i]) => s[i] = " "
    /\ \A i \in 1..(Len(s) - 1) : ~(s[i] = " " /\ s[i+1] = " ")
    /\ s # <<>> => (s[1] # " " /\ s[Len(s)] # " ")

PunctuationChars == {",", ".", ";", ":", "!", "?", "-", "&"}

NoTrailingPunctuation(s) == s # <<>> => s[Len(s)] \notin PunctuationChars

\* C22: the cleaned form of every company name contains no suffix of the
\* vocabulary as a whole word in any letter case, has its whitespace
\* collapsed and has no trailing punctuation; "Acme Corp, Inc." loses both
\* "Corp" and "Inc" and keeps no trailing punctuation.
C22_CleanedCompanyName ==
    pc = "clean_company_name" =>
        LET cleaned == enriched[1].company_name
        IN  /\ ~HasSuffixWord(cleaned)
            /\ WhitespaceCollapsed(cleaned)
            /\ NoTrailingPunctuation(cleaned)

\* C30: _clean_company_name is idempotent: cleaning a name it returned
\* gives that name again.
C30_CleaningIsIdempotent ==
    pc = "clean_company_name_again" =>
        enriched[2].company_name = enriched[1].company_name

\* a name that the first cleaning changed, by removing a suffix and a
\* trailing comma, was cleaned again
C30_Witness ==
    /\ pc = "clean_company_name_again"
    /\ leads[1].company_name = s_Acme_Inc \o <<",">>
    /\ enriched[1].company_name = s_Acme
    /\ enriched[2].company_name = s_Acme

\* url without a leading http:// or https://, without everything from the
\* first '/' on, and without a leading 'www.'
DomainOf(url) ==
    LET no_protocol == IF starts_with(url, s_https) THEN SubSeq(url, Len(s_https) + 1, Len(url))
                       ELSE IF starts_with(url, s_http)
                            THEN SubSeq(url, Len(s_http) + 1, Len(url))
                            ELSE url
        slashes == {i \in 1..Len(no_protocol) : no_protocol[i] = "/"}
        host == IF slashes = {} THEN no_protocol
                ELSE SubSeq(no_protocol, 1,
                            (CHOOSE i \in slashes : \A j \in slashes : i <= j) - 1)
    IN  IF starts_with(host, s_www) THEN SubSeq(host, Len(s_www) + 1, Len(host)) ELSE host

\* C26: for every URL, DataProcessor.extract_domain_from_url and
\* EmailFinder._extract_domain return the same domain: the URL without a
\* leading http:// or https://, cut at its first '/', without a leading
\* 'www.', and nothing else altered.
C26_DomainExtractionUniform ==
    pc = "extract_domain" =>
        /\ enriched[1].domain = DomainOf(leads[1].company_website)
        /\ enriched[2].domain = DomainOf(leads[1].company_website)

\* ---------------------------------------------------------------------
\* Properties of the normalization of a batch

s_John == <<"J","o","h","n">>
s_Smith == <<"S","m","i","t","h">>

\* C23: the posting with employee count "250-500 employees", company
\* "Acme Solutions Inc", poster "John Smith" and website
\* "https://www.acme.com/careers" yields, under the threshold 200, one Lead
\* with employee_count 250, company name "Acme Solutions", first name
\* "John", last name "Smith" and company_domain "acme.com".
C23_EndToEndNormalization ==
    (pc = "format_lead_data" /\ job_data = <<ExamplePosting>>) =>
        /\ Len(leads) = 1
        /\ leads[1].employee_count = IntV(250)
        /\ leads[1].company_name = s_Acme_Solutions
        /\ leads[1].first_name = s_John
        /\ leads[1].last_name = s_Smith
        /\ leads[1].company_domain = s_acme_com

\* the threshold filter and the validation of the required fields first,
\* the batch de-duplication after them
validate_then_remove_duplicates(data) ==
    remove_duplicates(
        validate_required_fields(
            clean_company_names(
                filter_by_employee_count(data))))

\* C24: filter_and_clean returns what the threshold filter and the
\* validation of the required fields followed by the batch de-duplication
\* return: for each company_linkedin_url the survivor is the first posting
\* that passes the threshold and has every required field.
C24_NormalizationPrecedesDeduplication ==
    pc = "filter_and_clean" => jobs = validate_then_remove_duplicates(job_data)

\* ---------------------------------------------------------------------
\* Properties of the store de-duplication, continued

LeadPair(lead) ==
    <<lower(Get(lead, "email", <<>>)), lower(Get(lead, "company_name", <<>>))>>

\* C25: check_duplicate_leads suppresses a lead only if its lower-cased
\* (email, company) pair is the pair of a persisted entry or of an earlier
\* lead of the batch, or it has no email and its lower-cased company name
\* is a persisted company name; every other incoming lead is in the output.
C25_SuppressedOnlyOnMatch ==
    pc = "check_duplicate_leads" =>
        LET existing_leads == get_existing_leads(sheet, read_ok)
            persisted_pairs == {LeadPair(existing_leads[n]) : n \in 1..Len(existing_leads)}
            persisted_names == {LeadPair(existing_leads[n])[2] : n \in 1..Len(existing_leads)}
            MaySuppress(i) ==
                \/ LeadPair(leads[i]) \in persisted_pairs
                \/ \E k \in 1..(i-1) : LeadPair(leads[k]) = LeadPair(leads[i])
                \/ LeadPair(leads[i])[1] = <<>> /\ LeadPair(leads[i])[2] \in persisted_names
        IN  \A i \in 1..Len(leads) :
                ~MaySuppress(i) => \E j \in 1..Len(unique_leads) : unique_leads[j] = leads[i]

\* ---------------------------------------------------------------------
\* Properties of the enrichment stages, continued

\* every field of inp outside `fields` is in out with the value it had, and
\* out has no field that is neither in inp nor in `fields`
FrameOutside(out, inp, fields) ==
    /\ \A key \in DOMAIN inp \ fields : key \in DOMAIN out /\ out[key] = inp[key]
    /\ \A key \in DOMAIN out \ fields : key \in DOMAIN inp

\* C27: find_emails_batch leaves every field of a lead other than email,
\* email_confidence and email_status as it was, and
\* generate_compliments_batch every field other than compliment: the
\* identity and posting fields and the other stage's enrichment fields are
\* untouched.
C27_StageChangesOnlyItsFields ==
    /\ pc = "find_emails_batch" =>
           \A i \in 1..Len(leads) : FrameOutside(enriched[i], leads[i], EmailFields)
    /\ pc = "generate_compliments_batch" =>
           \A i \in 1..Len(leads) : FrameOutside(enriched[i], leads[i], ComplimentFields)

\* a lead that carried an email got another compliment, and kept the email
C27_Witness ==
    /\ pc = "generate_compliments_batch"
    /\ Len(leads) = 2
    /\ leads[2] = EnrichedJob
    /\ enriched[2].email = s_jo_at_a_co
    /\ enriched[2].email_status = s_VALID
    /\ enriched[2].compliment # leads[2].compliment

\* C28: the projection _prepare_lead_data returns has no top-level field
\* and no custom field with an empty value, and add_leads_batch submits
\* every lead with that projection, a lead all of whose custom-field
\* sources are empty included.
C28_ProjectionHasNoEmptyValue ==
    pc = "add_leads_batch" =>
        /\ Len(RequestsTo(calls, "heyreach")) = Len(leads)
        /\ \A i \in 1..Len(leads) :
               LET json == RequestsTo(calls, "heyreach")[i].json
               IN  /\ json = prepare_lead_data(leads[i])
                   /\ \A key \in DOMAIN json : json[key] # <<>>
                   /\ "custom_fields" \in DOMAIN json =>
                          \A key \in DOMAIN json.custom_fields :
                              json.custom_fields[key] # <<>>

\* C29: for a Lead built by format_lead_data whose poster name has at
\* least two tokens and whose website is non-empty, find_emails_batch calls
\* the email lookup with the first token as first name, the remaining
\* tokens joined by a space as last name, and the domain of the website.
C29_LeadPosterNameIsRead ==
    pc = "find_emails_batch" =>
        \A i \in 1..Len(leads) :
            ( /\ "full_name" \in DOMAIN leads[i]
              /\ TokenCount(leads[i].full_name) >= 2
              /\ leads[i].company_website # <<>> )
            => \E n \in 1..Len(SegmentOf(calls, i)) :
                   LET event == SegmentOf(calls, i)[n]
                   IN  /\ event.op = "prospeo"
                       /\ event.firstName = Token(leads[i].full_name, 1)
                       /\ event.lastName =
                              TokensJoined(leads[i].full_name, 2, TokenCount(leads[i].full_name))
                       /\ event.domain = DomainOf(leads[i].company_website)

====
